---- MODULE Spec2Model ----
(***************************************************************************)
(* Model of the signal-derivation pipeline of the prediction application:  *)
(* the technical-indicator calculators (lib/technical-indicators.ts) and   *)
(* the prediction engine (lib/prediction-engine.ts).                       *)
(*                                                                         *)
(* Numbers.  The program computes in IEEE doubles.  The model computes in  *)
(* fixed point: a JavaScript number x is the integer x * Scale, rounded    *)
(* toward minus infinity after each division.  Raw prices, volumes and     *)
(* counters that the program keeps integral stay plain integers.           *)
(***************************************************************************)
EXTENDS Integers, Sequences, FiniteSets, TLC

VARIABLES
  prices,            \* the price series handed to a calculator (raw prices)
  period,            \* the period argument of the call
  calc,              \* the call made on `prices` and what it returned
  pricesWithVolume,  \* the (price, volume) pairs handed to calculateVolumeProfile
  priceRanges,       \* its bucket-count argument
  profile,           \* what calculateVolumeProfile did: returned buckets or threw
  cryptos,           \* the asset list handed to generatePredictions
  cursor,                 \* the loop position of generatePredictions (1-based)
  predictions,       \* its local array `predictions`
  pc,                \* generatePredictions: idle, running, returned or rejected
  gp,                \* the generatePrediction call of the current asset
  outstanding,       \* fetchPriceHistory calls issued and not yet settled
  fetchLog,          \* every fetchPriceHistory call issued: <<id, days>>
  evaluated          \* per finished generatePrediction call: "resolved" or "rejected"

indicatorVars == <<prices, period, calc>>
volumeVars == <<pricesWithVolume, priceRanges, profile>>
batchVars == <<cryptos, cursor, predictions, pc, gp, outstanding, fetchLog, evaluated>>
vars == <<prices, period, calc, pricesWithVolume, priceRanges, profile,
          cryptos, cursor, predictions, pc, gp, outstanding, fetchLog, evaluated>>

-----------------------------------------------------------------------------
(* Bounds of the model *)

MaxLen == 5
MaxPeriod == 4
MaxPrice == 3
MaxSwings == 5
MaxSamples == 3
MaxVolume == 2
MaxAssets == 2
MaxVolatilitySteps == 20

(* Fixed-point unit: three decimal places *)
Scale == 10 * 100

-----------------------------------------------------------------------------
(* Arithmetic helpers *)

Abs(x) == IF x < 0 THEN -x ELSE x
Min(a, b) == IF a < b THEN a ELSE b
Max(a, b) == IF a > b THEN a ELSE b

RECURSIVE Sum(_)
Sum(s) == IF s = <<>> THEN 0 ELSE Head(s) + Sum(Tail(s))

SetMin(S) == CHOOSE x \in S : \A y \in S : x <= y
SetMax(S) == CHOOSE x \in S : \A y \in S : x >= y

(* Array.prototype.slice(-n): the last n elements, the whole array if shorter *)
SliceLast(s, n) == IF Len(s) <= n THEN s ELSE SubSeq(s, Len(s) - n + 1, Len(s))

(* prices.map(p => p.price), as fixed-point numbers *)
PriceValues(ps) == [i \in 1..Len(ps) |-> ps[i] * Scale]

(* Math.sqrt on a fixed-point square (v carries Scale * Scale) *)
RECURSIVE SqrtBisect(_, _, _)
SqrtBisect(v, lo, hi) ==
  IF lo >= hi THEN lo
  ELSE LET mid == (lo + hi + 1) \div 2
       IN IF mid * mid <= v THEN SqrtBisect(v, mid, hi)
          ELSE SqrtBisect(v, lo, mid - 1)
MathSqrt(v) == SqrtBisect(v, 0, 46340)

-----------------------------------------------------------------------------
(* Moving averages: technical-indicators.ts 26-49 *)

(* calculateSMA(prices, period), on fixed-point values.  A series shorter  *)
(* than `period` yields its last value (`|| 0` for the empty series).      *)
calculateSMA(vals, per) ==
  IF Len(vals) < per
    THEN (IF Len(vals) = 0 THEN 0 ELSE vals[Len(vals)])
    ELSE Sum(SliceLast(vals, per)) \div per

RECURSIVE EMAFrom(_, _, _, _)
EMAFrom(vals, per, i, ema) ==
  IF i > Len(vals) THEN ema
  ELSE EMAFrom(vals, per, i + 1, ((vals[i] - ema) * 2) \div (per + 1) + ema)

(* calculateEMA(prices, period) *)
calculateEMA_shortSMA(vals, per) ==
  IF Len(vals) < per THEN calculateSMA(vals, per)
  ELSE EMAFrom(vals, per, per + 1, calculateSMA(SubSeq(vals, 1, per), per))
calculateEMA(vals, per) ==
  IF Len(vals) < per THEN calculateSMA(vals, Len(vals))
  ELSE EMAFrom(vals, per, per + 1, calculateSMA(SubSeq(vals, 1, per), per))

-----------------------------------------------------------------------------
(* RSI: technical-indicators.ts 58-115 *)

RSIPeriod == 14

PriceChanges(ps) == [i \in 1..(Len(ps) - 1) |-> (ps[i + 1] - ps[i]) * Scale]

Gain(change) == IF change > 0 THEN change ELSE 0
Loss(change) == IF change > 0 THEN 0 ELSE Abs(change)

RECURSIVE SeedSum(_, _, _)
SeedSum(changes, per, gains) ==
  IF per = 0 THEN 0
  ELSE (IF gains THEN Gain(changes[per]) ELSE Loss(changes[per]))
       + SeedSum(changes, per - 1, gains)

(* Wilder smoothing of one average over changes[i..] *)
RECURSIVE Smooth(_, _, _, _, _)
Smooth(changes, per, i, avg, gains) ==
  IF i > Len(changes) THEN avg
  ELSE Smooth(changes, per, i + 1,
              (avg * (per - 1)
                 + (IF gains THEN Gain(changes[i]) ELSE Loss(changes[i]))) \div per,
              gains)

RSIDefault == [value |-> 50 * Scale, signal |-> "neutral", trend |-> "neutral"]

calculateRSI_lossFreeIsZero(ps, per) ==
  IF Len(ps) < per + 1 THEN RSIDefault
  ELSE
    LET changes == PriceChanges(ps)
        avgGain == Smooth(changes, per, per + 1, SeedSum(changes, per, TRUE) \div per, TRUE)
        avgLoss == Smooth(changes, per, per + 1, SeedSum(changes, per, FALSE) \div per, FALSE)
        rsi == IF avgLoss = 0 THEN 0
               ELSE 100 * Scale - (100 * Scale * avgLoss) \div (avgLoss + avgGain)
        last == changes[Len(changes)]
    IN [value |-> rsi,
        signal |-> IF rsi > 70 * Scale THEN "overbought"
                   ELSE IF rsi < 30 * Scale THEN "oversold" ELSE "neutral",
        trend |-> IF rsi > 50 * Scale /\ last > 0 THEN "bullish"
                  ELSE IF rsi < 50 * Scale /\ last < 0 THEN "bearish" ELSE "neutral"]
calculateRSI_trendFromLastChange(ps, per) ==
  IF Len(ps) < per + 1 THEN RSIDefault
  ELSE
    LET changes == PriceChanges(ps)
        avgGain == Smooth(changes, per, per + 1, SeedSum(changes, per, TRUE) \div per, TRUE)
        avgLoss == Smooth(changes, per, per + 1, SeedSum(changes, per, FALSE) \div per, FALSE)
        rsi == IF avgLoss = 0 THEN 100 * Scale - (100 * Scale) \div 101
               ELSE 100 * Scale - (100 * Scale * avgLoss) \div (avgLoss + avgGain)
        last == changes[Len(changes)]
    IN [value |-> rsi,
        signal |-> IF rsi > 70 * Scale THEN "overbought"
                   ELSE IF rsi < 30 * Scale THEN "oversold" ELSE "neutral",
        trend |-> IF last > 0 THEN "bullish"
                  ELSE IF last < 0 THEN "bearish" ELSE "neutral"]
calculateRSI(ps, per) ==
  IF Len(ps) < per + 1 THEN RSIDefault
  ELSE
    LET changes == PriceChanges(ps)
        avgGain == Smooth(changes, per, per + 1, SeedSum(changes, per, TRUE) \div per, TRUE)
        avgLoss == Smooth(changes, per, per + 1, SeedSum(changes, per, FALSE) \div per, FALSE)
        \* rs = avgLoss === 0 ? 100 : avgGain / avgLoss; rsi = 100 - 100 / (1 + rs)
        rsi == IF avgLoss = 0 THEN 100 * Scale - (100 * Scale) \div 101
               ELSE 100 * Scale - (100 * Scale * avgLoss) \div (avgLoss + avgGain)
        last == changes[Len(changes)]
    IN [value |-> rsi,
        signal |-> IF rsi > 70 * Scale THEN "overbought"
                   ELSE IF rsi < 30 * Scale THEN "oversold" ELSE "neutral",
        trend |-> IF rsi > 50 * Scale /\ last > 0 THEN "bullish"
                  ELSE IF rsi < 50 * Scale /\ last < 0 THEN "bearish" ELSE "neutral"]

-----------------------------------------------------------------------------
(* MACD: technical-indicators.ts 125-184 *)

MACDFast == 12
MACDSlow == 26
MACDSignal == 9

MACDDefault ==
  [macd |-> 0, signal |-> 0, histogram |-> 0, trend |-> "neutral", crossover |-> "none"]

(* macdHistory: EMA12 - EMA26 of every prefix of length 26..n *)
MACDHistory(vals) ==
  [k \in 1..(Len(vals) - MACDSlow + 1) |->
     LET slice == SubSeq(vals, 1, k + MACDSlow - 1)
     IN calculateEMA(slice, MACDFast) - calculateEMA(slice, MACDSlow)]

calculateMACD_strictCrossing(ps) ==
  LET vals == PriceValues(ps)
  IN IF Len(vals) < MACDSlow THEN MACDDefault
     ELSE
       LET macdLine == calculateEMA(vals, MACDFast) - calculateEMA(vals, MACDSlow)
           history == MACDHistory(vals)
           signalLine == calculateEMA(history, MACDSignal)
           histogram == macdLine - signalLine
           prevMACD == history[Len(history) - 1]
           prevSignal == calculateEMA(SubSeq(history, 1, Len(history) - 1), MACDSignal)
       IN [macd |-> macdLine,
           signal |-> signalLine,
           histogram |-> histogram,
           trend |-> IF macdLine > signalLine /\ histogram > 0 THEN "bullish"
                     ELSE IF macdLine < signalLine /\ histogram < 0 THEN "bearish"
                     ELSE "neutral",
           crossover |->
             IF Len(history) >= 2
               THEN (IF prevMACD < prevSignal /\ macdLine > signalLine
                       THEN "bullish_crossover"
                     ELSE IF prevMACD > prevSignal /\ macdLine < signalLine
                       THEN "bearish_crossover"
                     ELSE "none")
               ELSE "none"]
calculateMACD(ps) ==
  LET vals == PriceValues(ps)
  IN IF Len(vals) < MACDSlow THEN MACDDefault
     ELSE
       LET macdLine == calculateEMA(vals, MACDFast) - calculateEMA(vals, MACDSlow)
           history == MACDHistory(vals)
           signalLine == calculateEMA(history, MACDSignal)
           histogram == macdLine - signalLine
           prevMACD == history[Len(history) - 1]
           prevSignal == calculateEMA(SubSeq(history, 1, Len(history) - 1), MACDSignal)
       IN [macd |-> macdLine,
           signal |-> signalLine,
           histogram |-> histogram,
           trend |-> IF macdLine > signalLine /\ histogram > 0 THEN "bullish"
                     ELSE IF macdLine < signalLine /\ histogram < 0 THEN "bearish"
                     ELSE "neutral",
           crossover |->
             IF Len(history) >= 2
               THEN (IF prevMACD <= prevSignal /\ macdLine > signalLine
                       THEN "bullish_crossover"
                     ELSE IF prevMACD >= prevSignal /\ macdLine < signalLine
                       THEN "bearish_crossover"
                     ELSE "none")
               ELSE "none"]

-----------------------------------------------------------------------------
(* Bollinger Bands: technical-indicators.ts 196-254 *)

BollingerPeriod == 20
BollingerStdDev == 2

(* `nan` records that upper, middle and lower are not numbers: the last     *)
(* element of an empty array is undefined, and undefined * 1.05 is NaN.     *)
(* The three fields then hold 0 as a placeholder.                          *)
BollingerShort_zeroWidth(vals) ==
  IF Len(vals) = 0
    THEN [upper |-> 0, middle |-> 0, lower |-> 0, bandwidth |-> 0,
          position |-> "middle", signal |-> "neutral", nan |-> TRUE]
    ELSE LET currentPrice == vals[Len(vals)]
         IN [upper |-> currentPrice, middle |-> currentPrice, lower |-> currentPrice,
             bandwidth |-> 0,
             position |-> "middle", signal |-> "neutral", nan |-> FALSE]
BollingerShort(vals) ==
  IF Len(vals) = 0
    THEN [upper |-> 0, middle |-> 0, lower |-> 0, bandwidth |-> 10 * Scale,
          position |-> "middle", signal |-> "neutral", nan |-> TRUE]
    ELSE LET currentPrice == vals[Len(vals)]
         IN [upper |-> (currentPrice * 105) \div 100,
             middle |-> currentPrice,
             lower |-> (currentPrice * 95) \div 100,
             bandwidth |-> 10 * Scale,
             position |-> "middle", signal |-> "neutral", nan |-> FALSE]

RECURSIVE SquaredDeviations(_, _)
SquaredDeviations(vals, sma) ==
  IF vals = <<>> THEN 0
  ELSE (Head(vals) - sma) * (Head(vals) - sma) + SquaredDeviations(Tail(vals), sma)

BollingerPosition(currentPrice, upper, sma, lower) ==
  LET upperThreshold == upper - (upper - sma) \div 5
      lowerThreshold == lower + (sma - lower) \div 5
  IN IF currentPrice > upper THEN "above_upper"
     ELSE IF currentPrice > upperThreshold THEN "near_upper"
     ELSE IF currentPrice < lower THEN "below_lower"
     ELSE IF currentPrice < lowerThreshold THEN "near_lower"
     ELSE "middle"

BollingerSignal(position) ==
  IF position \in {"above_upper", "near_upper"} THEN "overbought"
  ELSE IF position \in {"below_lower", "near_lower"} THEN "oversold"
  ELSE "neutral"

BollingerFull_oneSidedLower(vals, per, stdDev) ==
  LET sma == calculateSMA(vals, per)
      standardDeviation == MathSqrt(SquaredDeviations(SliceLast(vals, per), sma) \div per)
      upper == sma + stdDev * standardDeviation
      lower == sma - standardDeviation
      position == BollingerPosition(vals[Len(vals)], upper, sma, lower)
  IN [upper |-> upper, middle |-> sma, lower |-> lower,
      bandwidth |-> ((upper - lower) * 100 * Scale) \div sma,
      position |-> position, signal |-> BollingerSignal(position), nan |-> FALSE]
BollingerFull(vals, per, stdDev) ==
  LET sma == calculateSMA(vals, per)
      standardDeviation == MathSqrt(SquaredDeviations(SliceLast(vals, per), sma) \div per)
      upper == sma + stdDev * standardDeviation
      lower == sma - stdDev * standardDeviation
      position == BollingerPosition(vals[Len(vals)], upper, sma, lower)
  IN [upper |-> upper, middle |-> sma, lower |-> lower,
      bandwidth |-> ((upper - lower) * 100 * Scale) \div sma,
      position |-> position, signal |-> BollingerSignal(position), nan |-> FALSE]

calculateBollingerBands(ps, per, stdDev) ==
  LET vals == PriceValues(ps)
  IN IF Len(vals) < per THEN BollingerShort(vals) ELSE BollingerFull(vals, per, stdDev)

-----------------------------------------------------------------------------
(* Support / resistance: technical-indicators.ts 263-341 *)

SRMinLength == 10
SRThreshold == 20       \* 0.02, the default clustering threshold, in fixed point
MaxLevels == 3

IsLocalMin(v, i) ==
  v[i] < v[i - 1] /\ v[i] < v[i - 2] /\ v[i] < v[i + 1] /\ v[i] < v[i + 2]
IsLocalMax(v, i) ==
  v[i] > v[i - 1] /\ v[i] > v[i - 2] /\ v[i] > v[i + 1] /\ v[i] > v[i + 2]

(* levels.find(l => Math.abs(l.price - price) / price < threshold): the     *)
(* index of the first such level, 0 if there is none                        *)
FindLevel(levels, price, threshold) ==
  LET near == {j \in 1..Len(levels) :
                 Abs(levels[j].price - price) * Scale < threshold * price}
  IN IF near = {} THEN 0 ELSE SetMin(near)

(* one extremum: merged into the level found, or pushed as a new level *)
Touch_midpoint(levels, price, threshold) ==
  LET j == FindLevel(levels, price, threshold)
  IN IF j = 0 THEN Append(levels, [price |-> price, touches |-> 1])
     ELSE [levels EXCEPT ![j] = [price |-> (levels[j].price + price) \div 2,
                                 touches |-> levels[j].touches + 1]]
Touch(levels, price, threshold) ==
  LET j == FindLevel(levels, price, threshold)
  IN IF j = 0 THEN Append(levels, [price |-> price, touches |-> 1])
     ELSE LET touches == levels[j].touches + 1
          IN [levels EXCEPT ![j] =
                [price |-> (levels[j].price * (touches - 1) + price) \div touches,
                 touches |-> touches]]

(* the scan for (let i = 2; i < length - 2; i++), for one kind of extremum *)
RECURSIVE Scan(_, _, _, _, _)
Scan(v, i, levels, threshold, minima) ==
  IF i > Len(v) - 2 THEN levels
  ELSE Scan(v, i + 1,
            IF (IF minima THEN IsLocalMin(v, i) ELSE IsLocalMax(v, i))
              THEN Touch(levels, v[i], threshold) ELSE levels,
            threshold, minima)

RawSupports(v, threshold) == Scan(v, 3, <<>>, threshold, TRUE)
RawResistances(v, threshold) == Scan(v, 3, <<>>, threshold, FALSE)

RECURSIVE FilterSeq(_, _)
FilterSeq(s, keep) ==
  IF s = <<>> THEN <<>>
  ELSE (IF Head(s) \in keep THEN <<Head(s)>> ELSE <<>>) \o FilterSeq(Tail(s), keep)

(* Array.prototype.sort (stable) by price, descending or ascending *)
InsertLevel(x, sorted, descending) ==
  LET k == Cardinality({j \in 1..Len(sorted) :
                          IF descending THEN sorted[j].price >= x.price
                          ELSE sorted[j].price <= x.price})
  IN SubSeq(sorted, 1, k) \o <<x>> \o SubSeq(sorted, k + 1, Len(sorted))

RECURSIVE SortFrom(_, _, _)
SortFrom(s, sorted, descending) ==
  IF s = <<>> THEN sorted
  ELSE SortFrom(Tail(s), InsertLevel(Head(s), sorted, descending), descending)
SortLevels(s, descending) == SortFrom(s, <<>>, descending)

formatLevel(level, type) ==
  [price |-> level.price, type |-> type,
   strength |-> IF level.touches >= 3 THEN "strong"
                ELSE IF level.touches = 2 THEN "moderate" ELSE "weak",
   touches |-> level.touches]

FormatAll(levels, type) == [i \in 1..Len(levels) |-> formatLevel(levels[i], type)]

SliceFirst(s, n) == SubSeq(s, 1, Min(n, Len(s)))

(* supports below the current price and above 0.8 of it *)
IsRelevantSupport(s, currentPrice) ==
  s.price < currentPrice /\ s.price * 10 > currentPrice * 8
IsRelevantResistance(r, currentPrice) ==
  r.price > currentPrice /\ r.price * 10 < currentPrice * 12

RelevantSupports_noCap(v, threshold) ==
  LET raw == RawSupports(v, threshold)
      kept == FilterSeq(raw, {s \in {raw[j] : j \in 1..Len(raw)} :
                                IsRelevantSupport(s, v[Len(v)])})
  IN FormatAll(SortLevels(kept, TRUE), "support")
RelevantSupports(v, threshold) ==
  LET raw == RawSupports(v, threshold)
      kept == FilterSeq(raw, {s \in {raw[j] : j \in 1..Len(raw)} :
                                IsRelevantSupport(s, v[Len(v)])})
  IN FormatAll(SliceFirst(SortLevels(kept, TRUE), MaxLevels), "support")

RelevantResistances(v, threshold) ==
  LET raw == RawResistances(v, threshold)
      kept == FilterSeq(raw, {r \in {raw[j] : j \in 1..Len(raw)} :
                                IsRelevantResistance(r, v[Len(v)])})
  IN FormatAll(SliceFirst(SortLevels(kept, FALSE), MaxLevels), "resistance")

detectSupportResistance(ps, threshold) ==
  IF Len(ps) < SRMinLength THEN [supports |-> <<>>, resistances |-> <<>>]
  ELSE LET v == PriceValues(ps)
       IN [supports |-> RelevantSupports(v, threshold),
           resistances |-> RelevantResistances(v, threshold)]

-----------------------------------------------------------------------------
(* Candlestick patterns: technical-indicators.ts 349-448 *)

CandleMinLength == 4

Candle(pattern, signal, confidence) ==
  [pattern |-> pattern, signal |-> signal, confidence |-> confidence]

identifyCandlestickPattern_engulfingFirst(ps) ==
  IF Len(ps) < CandleMinLength THEN Candle("none", "neutral", 0)
  ELSE
    LET recent == SliceLast(ps, 4)
        p0 == recent[1]
        p1 == recent[2]
        p2 == recent[3]
        p3 == recent[4]
        change1 == p1 - p0
        change2 == p2 - p1
        change3 == p3 - p2
    IN IF change2 < 0 /\ change3 > 0 /\ 2 * Abs(change3) > 3 * Abs(change2)
         THEN Candle("engulfing_bullish", "bullish", 75)
       ELSE IF change2 > 0 /\ change3 < 0 /\ 2 * Abs(change3) > 3 * Abs(change2)
         THEN Candle("engulfing_bearish", "bearish", 75)
       ELSE IF Abs(change3) * 1000 < p2 THEN Candle("doji", "neutral", 60)
       ELSE IF change1 < 0 /\ 2 * Abs(change2) < Abs(change1) /\ change3 > 0
         THEN Candle("morning_star", "bullish", 70)
       ELSE IF change1 > 0 /\ 2 * Abs(change2) < Abs(change1) /\ change3 < 0
         THEN Candle("evening_star", "bearish", 70)
       ELSE IF /\ change1 > 0 /\ change2 > 0 /\ change3 > 0
               /\ 100 * change1 > p0 /\ 100 * change2 > p1 /\ 100 * change3 > p2
         THEN Candle("three_white_soldiers", "bullish", 80)
       ELSE IF /\ change1 < 0 /\ change2 < 0 /\ change3 < 0
               /\ 100 * Abs(change1) > p0 /\ 100 * Abs(change2) > p1
               /\ 100 * Abs(change3) > p2
         THEN Candle("three_black_crows", "bearish", 80)
       ELSE Candle("none", "neutral", 0)
identifyCandlestickPattern(ps) ==
  IF Len(ps) < CandleMinLength THEN Candle("none", "neutral", 0)
  ELSE
    LET recent == SliceLast(ps, 4)
        p0 == recent[1]
        p1 == recent[2]
        p2 == recent[3]
        p3 == recent[4]
        change1 == p1 - p0
        change2 == p2 - p1
        change3 == p3 - p2
    IN \* Math.abs(change3) / p2 < 0.001
       IF Abs(change3) * 1000 < p2 THEN Candle("doji", "neutral", 60)
       \* Math.abs(change3) > Math.abs(change2) * 1.5
       ELSE IF change2 < 0 /\ change3 > 0 /\ 2 * Abs(change3) > 3 * Abs(change2)
         THEN Candle("engulfing_bullish", "bullish", 75)
       ELSE IF change2 > 0 /\ change3 < 0 /\ 2 * Abs(change3) > 3 * Abs(change2)
         THEN Candle("engulfing_bearish", "bearish", 75)
       \* Math.abs(change2) < Math.abs(change1) * 0.5
       ELSE IF change1 < 0 /\ 2 * Abs(change2) < Abs(change1) /\ change3 > 0
         THEN Candle("morning_star", "bullish", 70)
       ELSE IF change1 > 0 /\ 2 * Abs(change2) < Abs(change1) /\ change3 < 0
         THEN Candle("evening_star", "bearish", 70)
       \* each change above 1% of the price before it
       ELSE IF /\ change1 > 0 /\ change2 > 0 /\ change3 > 0
               /\ 100 * change1 > p0 /\ 100 * change2 > p1 /\ 100 * change3 > p2
         THEN Candle("three_white_soldiers", "bullish", 80)
       ELSE IF /\ change1 < 0 /\ change2 < 0 /\ change3 < 0
               /\ 100 * Abs(change1) > p0 /\ 100 * Abs(change2) > p1
               /\ 100 * Abs(change3) > p2
         THEN Candle("three_black_crows", "bearish", 80)
       ELSE Candle("none", "neutral", 0)

-----------------------------------------------------------------------------
(* Volume profile: technical-indicators.ts 457-497 *)

VolumeRanges == 20

PricesOf(pv) == {pv[i].price : i \in 1..Len(pv)}

(* Math.min(Math.floor((price - minPrice) / priceStep), priceRanges - 1).    *)
(* Only defined when priceStep > 0; the quotient is taken exactly.          *)
BucketIndex(price, minPrice, maxPrice, ranges) ==
  Min(((price - minPrice) * ranges) \div (maxPrice - minPrice), ranges - 1)

(* buckets[i].volume after the forEach, i = 0 .. ranges - 1 *)
BucketVolume(pv, i, minPrice, maxPrice, ranges) ==
  Sum([k \in 1..Len(pv) |->
         IF BucketIndex(pv[k].price, minPrice, maxPrice, ranges) = i
           THEN pv[k].volume ELSE 0])

(* Array.prototype.sort (stable), descending by volume *)
InsertBucket(x, sorted) ==
  LET k == Cardinality({j \in 1..Len(sorted) : sorted[j].volume >= x.volume})
  IN SubSeq(sorted, 1, k) \o <<x>> \o SubSeq(sorted, k + 1, Len(sorted))

RECURSIVE SortBuckets(_, _)
SortBuckets(s, sorted) ==
  IF s = <<>> THEN sorted ELSE SortBuckets(Tail(s), InsertBucket(Head(s), sorted))

RECURSIVE DropEmpty(_)
DropEmpty(s) ==
  IF s = <<>> THEN <<>>
  ELSE (IF Head(s).volume > 0 THEN <<Head(s)>> ELSE <<>>) \o DropEmpty(Tail(s))

(* The result: threw = TRUE when the call ends in a TypeError.  With all    *)
(* prices equal priceStep is 0, (price - minPrice) / priceStep is 0 / 0 =  *)
(* NaN, Math.min(NaN, ..) is NaN and buckets[NaN] is undefined, so reading *)
(* its .volume throws.  The percentage of a bucket that the filter drops   *)
(* is not computed here (it is NaN when the total volume is 0).            *)
calculateVolumeProfile(pv, ranges) ==
  IF Len(pv) = 0 THEN [threw |-> FALSE, buckets |-> <<>>]
  ELSE
    LET minPrice == SetMin(PricesOf(pv))
        maxPrice == SetMax(PricesOf(pv))
    IN IF maxPrice = minPrice THEN [threw |-> TRUE, buckets |-> <<>>]
       ELSE
         LET step == ((maxPrice - minPrice) * Scale) \div ranges
             buckets == [i \in 1..ranges |->
                           [priceLevel |-> minPrice * Scale + step * (i - 1) + step \div 2,
                            volume |-> BucketVolume(pv, i - 1, minPrice, maxPrice, ranges)]]
             totalVolume == Sum([i \in 1..ranges |-> buckets[i].volume])
             kept == DropEmpty(buckets)
         IN [threw |-> FALSE,
             buckets |-> SortBuckets(
               [i \in 1..Len(kept) |->
                  [priceLevel |-> kept[i].priceLevel,
                   volume |-> kept[i].volume,
                   percentage |-> (kept[i].volume * 100 * Scale) \div totalVolume]],
               <<>>)]

-----------------------------------------------------------------------------
(* Prediction engine: prediction-engine.ts.                                *)
(* An asset (CryptoData) is a record                                       *)
(*   [id, change24h, change7d, high, low, price, volume, cap, rank, faulty] *)
(* change24h / change7d are percentages in fixed point; high, low, price,  *)
(* volume and cap are whole numbers; faulty says whether evaluating the    *)
(* entry raises an exception outside the fetch's try block: "before" the   *)
(* fetch is issued, "after" it settled, "null" for a null entry (which     *)
(* raises before the fetch and has no readable id), or "no".               *)

Clamp(lo, hi, x) == Max(lo, Min(hi, x))

(* calculateBasicIndicators: prediction-engine.ts 39-71 *)
calculateBasicIndicators(crypto) ==
  LET price24h == crypto.change24h
      price7d == crypto.change7d
      \* (price24h * 2.5 + price7d) / 3.5
      momentum == Clamp(-100 * Scale, 100 * Scale,
                        (((price24h * 25) \div 10 + price7d) * 10) \div 35)
      range == crypto.high - crypto.low
      volatility == Min(100 * Scale, (range * 100 * Scale) \div crypto.price)
      priceStrength == IF price24h > 0 THEN Min(30 * Scale, price24h * 3)
                       ELSE Max(-30 * Scale, price24h * 3)
      trendStrength == IF price7d > 0 THEN Min(20 * Scale, price7d * 2)
                       ELSE Max(-20 * Scale, price7d * 2)
  IN [trend_24h |-> IF price24h * 2 > Scale THEN "bullish"
                    ELSE IF price24h * 2 < -Scale THEN "bearish" ELSE "neutral",
      trend_7d |-> IF price7d > Scale THEN "bullish"
                   ELSE IF price7d < -Scale THEN "bearish" ELSE "neutral",
      momentum |-> momentum,
      \* total_volume / market_cap against 0.15 and 0.05
      volume_signal |-> IF crypto.volume * 100 > 15 * crypto.cap THEN "high"
                        ELSE IF crypto.volume * 100 < 5 * crypto.cap THEN "low"
                        ELSE "normal",
      volatility |-> volatility,
      strength |-> Clamp(0, 100 * Scale, 50 * Scale + priceStrength + trendStrength)]

(* enhancedIndicators: null, or the four indicator results *)
NullEnhanced == [present |-> FALSE]

Enhanced(rsi, macd, bb, sr) ==
  [present |-> TRUE, rsi |-> rsi, macd |-> macd, bollingerBands |-> bb,
   supportLevels |-> sr.supports, resistanceLevels |-> sr.resistances]

HasStrong(levels) == \E i \in 1..Len(levels) : levels[i].strength = "strong"

(* the two scores of determinePrediction: prediction-engine.ts 84-165 *)
BullishScore(ind, enh) ==
  (IF ind.momentum > 5 * Scale /\ ind.trend_24h = "bullish" THEN 2 ELSE 0)
  + (IF ind.momentum > 10 * Scale /\ ind.trend_7d = "bullish" THEN 2 ELSE 0)
  + (IF ind.volume_signal = "high" /\ ind.strength > 55 * Scale THEN 1 ELSE 0)
  + (IF ~enh.present THEN 0
     ELSE (IF enh.rsi.signal = "oversold" /\ enh.rsi.trend = "bullish" THEN 3
           ELSE IF enh.rsi.signal = "oversold" THEN 2 ELSE 0)
        + (IF enh.rsi.value > 50 * Scale /\ enh.rsi.trend = "bullish" THEN 1 ELSE 0)
        + (IF enh.macd.crossover = "bullish_crossover" THEN 3 ELSE 0)
        + (IF enh.macd.trend = "bullish" /\ enh.macd.histogram > 0 THEN 2 ELSE 0)
        + (IF enh.bollingerBands.signal = "oversold"
              \/ enh.bollingerBands.position = "below_lower" THEN 2 ELSE 0)
        + (IF enh.bollingerBands.bandwidth < 5 * Scale
              /\ enh.bollingerBands.position = "near_lower" THEN 1 ELSE 0)
        + (IF HasStrong(enh.supportLevels) /\ ind.trend_24h = "bullish" THEN 2 ELSE 0))

BearishScore(ind, enh) ==
  (IF ind.momentum < -5 * Scale /\ ind.trend_24h = "bearish" THEN 2 ELSE 0)
  + (IF ind.momentum < -10 * Scale /\ ind.trend_7d = "bearish" THEN 2 ELSE 0)
  + (IF ind.volume_signal = "high" /\ ind.strength < 45 * Scale THEN 1 ELSE 0)
  + (IF ~enh.present THEN 0
     ELSE (IF enh.rsi.signal = "oversold" THEN 0
           ELSE IF enh.rsi.signal = "overbought" /\ enh.rsi.trend = "bearish" THEN 3
           ELSE IF enh.rsi.signal = "overbought" THEN 2 ELSE 0)
        + (IF enh.rsi.value < 50 * Scale /\ enh.rsi.trend = "bearish" THEN 1 ELSE 0)
        + (IF enh.macd.crossover = "bullish_crossover" THEN 0
           ELSE IF enh.macd.crossover = "bearish_crossover" THEN 3 ELSE 0)
        + (IF enh.macd.trend = "bullish" /\ enh.macd.histogram > 0 THEN 0
           ELSE IF enh.macd.trend = "bearish" /\ enh.macd.histogram < 0 THEN 2 ELSE 0)
        + (IF enh.bollingerBands.signal = "oversold"
              \/ enh.bollingerBands.position = "below_lower" THEN 0
           ELSE IF enh.bollingerBands.signal = "overbought"
                   \/ enh.bollingerBands.position = "above_upper" THEN 2 ELSE 0)
        + (IF enh.bollingerBands.bandwidth < 5 * Scale
              /\ enh.bollingerBands.position = "near_lower" THEN 0
           ELSE IF enh.bollingerBands.bandwidth < 5 * Scale
                   /\ enh.bollingerBands.position = "near_upper" THEN 1 ELSE 0)
        + (IF HasStrong(enh.resistanceLevels) /\ ind.trend_24h = "bearish" THEN 2 ELSE 0))

(* determinePrediction: prediction-engine.ts 80-178 *)
determinePrediction_momentumFirst(ind, enh) ==
  LET scoreDifference == BullishScore(ind, enh) - BearishScore(ind, enh)
  IN IF ind.momentum > 2 * Scale THEN "LONG"
     ELSE IF ind.momentum < -2 * Scale THEN "SHORT"
     ELSE IF scoreDifference >= 3 THEN "LONG"
     ELSE IF scoreDifference <= -3 THEN "SHORT"
     ELSE "NEUTRAL"
determinePrediction_anyLead(ind, enh) ==
  LET scoreDifference == BullishScore(ind, enh) - BearishScore(ind, enh)
  IN IF scoreDifference >= 1 THEN "LONG"
     ELSE IF scoreDifference <= -1 THEN "SHORT"
     ELSE IF ind.momentum > 2 * Scale THEN "LONG"
     ELSE IF ind.momentum < -2 * Scale THEN "SHORT"
     ELSE "NEUTRAL"
determinePrediction(ind, enh) ==
  LET scoreDifference == BullishScore(ind, enh) - BearishScore(ind, enh)
  IN IF scoreDifference >= 3 THEN "LONG"
     ELSE IF scoreDifference <= -3 THEN "SHORT"
     ELSE IF ind.momentum > 2 * Scale THEN "LONG"
     ELSE IF ind.momentum < -2 * Scale THEN "SHORT"
     ELSE "NEUTRAL"

(* calculateSentiment: prediction-engine.ts 187-238 *)
SentimentScore(ind, prediction, enh) ==
  (IF prediction = "LONG" THEN (ind.momentum + ind.strength) \div 2
   ELSE IF prediction = "SHORT"
     THEN -((Abs(ind.momentum) + (100 * Scale - ind.strength)) \div 2)
   ELSE 0)
  + (IF ~enh.present THEN 0
     ELSE (IF enh.rsi.signal = "oversold" THEN 10 * Scale ELSE 0)
        - (IF enh.rsi.signal = "overbought" THEN 10 * Scale ELSE 0)
        + (IF enh.macd.crossover = "bullish_crossover" THEN 15 * Scale ELSE 0)
        - (IF enh.macd.crossover = "bearish_crossover" THEN 15 * Scale ELSE 0)
        + (IF enh.bollingerBands.signal = "oversold" THEN 8 * Scale ELSE 0)
        - (IF enh.bollingerBands.signal = "overbought" THEN 8 * Scale ELSE 0))

calculateSentiment_weakIsNeutral(ind, prediction, enh) ==
  LET sentimentScore == SentimentScore(ind, prediction, enh)
  IN IF prediction = "LONG"
       THEN (IF sentimentScore > 60 * Scale THEN "EXTREME_BULLISH"
             ELSE IF sentimentScore > 40 * Scale THEN "BULLISH" ELSE "NEUTRAL")
     ELSE IF prediction = "SHORT"
       THEN (IF sentimentScore < -60 * Scale THEN "EXTREME_BEARISH"
             ELSE IF sentimentScore < -40 * Scale THEN "BEARISH" ELSE "NEUTRAL")
     ELSE "NEUTRAL"
calculateSentiment(ind, prediction, enh) ==
  LET sentimentScore == SentimentScore(ind, prediction, enh)
  IN IF prediction = "LONG"
       THEN (IF sentimentScore > 60 * Scale THEN "EXTREME_BULLISH" ELSE "BULLISH")
     ELSE IF prediction = "SHORT"
       THEN (IF sentimentScore < -60 * Scale THEN "EXTREME_BEARISH" ELSE "BEARISH")
     ELSE "NEUTRAL"

(* Math.round of a fixed-point number: floor(x + 0.5), a whole number *)
MathRound(x) == (x + Scale \div 2) \div Scale

(* the confidence of generatePrediction: prediction-engine.ts 700-714 *)
TechBonus_rsiOnly(enh) ==
  IF ~enh.present THEN 0
  ELSE (IF enh.rsi.signal \in {"oversold", "overbought"} THEN 10 ELSE 0)
TechBonus(enh) ==
  IF ~enh.present THEN 0
  ELSE (IF enh.rsi.signal \in {"oversold", "overbought"} THEN 10 ELSE 0)
     + (IF enh.macd.crossover # "none" THEN 15 ELSE 0)
     + (IF enh.bollingerBands.signal # "neutral" THEN 8 ELSE 0)

VolumeBonus_noPenalty(ind) ==
  IF ind.volume_signal = "high" THEN 10 ELSE 0
VolumeBonus(ind) ==
  IF ind.volume_signal = "high" THEN 10
  ELSE IF ind.volume_signal = "low" THEN -5 ELSE 0

Confidence(ind, enh) ==
  LET momentumScore == (Abs(ind.momentum) * 18) \div 10
  IN MathRound(Min(100 * Scale,
                   Max(30 * Scale,
                       40 * Scale + momentumScore
                         + (VolumeBonus(ind) + TechBonus(enh)) * Scale)))

(* calculateLeverage: prediction-engine.ts 247-265.  confidence is a whole *)
(* number, volatility a fixed-point percentage.                            *)
LeverageCaps(volatility) ==
  IF volatility > 8 * Scale THEN <<1, 2>>
  ELSE IF volatility > 6 * Scale THEN <<1, 3>>
  ELSE IF volatility > 4 * Scale THEN <<2, 5>>
  ELSE IF volatility > 2 * Scale THEN <<3, 7>>
  ELSE <<3, 10>>

calculateLeverage_neutralRated(confidence, volatility, prediction) ==
  LET volatilityFactor == Max((3 * Scale) \div 10, Scale - volatility \div 100)
      leverage == (confidence * volatilityFactor) \div 10
      caps == LeverageCaps(volatility)
  IN Min(caps[2], Max(caps[1], MathRound(leverage)))
calculateLeverage(confidence, volatility, prediction) ==
  IF prediction = "NEUTRAL" THEN 1
  ELSE
    LET \* baseMultiplier * volatilityFactor * 10 = confidence / 100 * factor * 10
        volatilityFactor == Max((3 * Scale) \div 10, Scale - volatility \div 100)
        leverage == (confidence * volatilityFactor) \div 10
        caps == LeverageCaps(volatility)
    IN Min(caps[2], Max(caps[1], MathRound(leverage)))

(* calculateRiskLevel: prediction-engine.ts 274-285 *)
calculateRiskLevel(volatility, leverage, ind) ==
  LET riskScore == volatility * 8 + leverage * 3 * Scale
                     + ((100 * Scale - ind.strength) * 2) \div 10
  IN IF riskScore > 70 * Scale THEN "Extreme"
     ELSE IF riskScore > 45 * Scale THEN "High"
     ELSE IF riskScore > 25 * Scale THEN "Medium"
     ELSE "Low"

(* generateReasons: prediction-engine.ts 295-441.  A reason is kept as its *)
(* category and impact; the text is not modelled.                          *)
Reason(category, impact) == [category |-> category, impact |-> impact]

generateReasons(crypto, ind, prediction, enh) ==
  (IF ~enh.present THEN <<>>
   ELSE (IF enh.rsi.signal = "oversold" THEN <<Reason("RSI Signal", "positive")>>
         ELSE IF enh.rsi.signal = "overbought" THEN <<Reason("RSI Signal", "negative")>>
         ELSE IF enh.rsi.value > 50 * Scale /\ enh.rsi.trend = "bullish"
           THEN <<Reason("RSI Signal", "positive")>>
         ELSE IF enh.rsi.value < 50 * Scale /\ enh.rsi.trend = "bearish"
           THEN <<Reason("RSI Signal", "negative")>>
         ELSE <<>>)
      \o (IF enh.macd.crossover = "bullish_crossover"
            THEN <<Reason("MACD Signal", "positive")>>
          ELSE IF enh.macd.crossover = "bearish_crossover"
            THEN <<Reason("MACD Signal", "negative")>>
          ELSE IF enh.macd.trend = "bullish" /\ enh.macd.histogram > 0
            THEN <<Reason("MACD Signal", "positive")>>
          ELSE IF enh.macd.trend = "bearish" /\ enh.macd.histogram < 0
            THEN <<Reason("MACD Signal", "negative")>>
          ELSE <<>>)
      \o (IF enh.bollingerBands.position = "below_lower"
            THEN <<Reason("Bollinger Bands", "positive")>>
          ELSE IF enh.bollingerBands.position = "above_upper"
            THEN <<Reason("Bollinger Bands", "negative")>>
          ELSE IF enh.bollingerBands.bandwidth < 5 * Scale
            THEN <<Reason("Bollinger Bands", "neutral")>>
          ELSE <<>>)
      \o (IF HasStrong(enh.supportLevels)
            THEN <<Reason("Support Level", "positive")>> ELSE <<>>)
      \o (IF HasStrong(enh.resistanceLevels)
            THEN <<Reason("Resistance Level", "negative")>> ELSE <<>>))
  \o (IF Abs(crypto.change24h) > 2 * Scale
        THEN <<Reason("Momentum",
                      IF crypto.change24h > 0 THEN "positive" ELSE "negative")>>
      ELSE <<>>)
  \o (IF ind.volume_signal = "high"
        THEN <<Reason("Volume",
                      IF prediction = "LONG" THEN "positive"
                      ELSE IF prediction = "SHORT" THEN "negative" ELSE "neutral")>>
      ELSE <<>>)
  \o (IF ind.volatility > 5 * Scale THEN <<Reason("Risk", "neutral")>> ELSE <<>>)

(* calculateTargets: prediction-engine.ts 452-574.  Percentages are kept   *)
(* in millionths (Scale * Scale); prices in fixed point.                   *)
BaseTargetPercent(rank) ==
  IF rank <= 10 THEN 45000 ELSE IF rank <= 30 THEN 70000
  ELSE IF rank <= 50 THEN 95000 ELSE IF rank <= 100 THEN 125000 ELSE 160000

BaseStopPercent(rank) ==
  IF rank <= 10 THEN 15000 ELSE IF rank <= 30 THEN 25000
  ELSE IF rank <= 50 THEN 30000 ELSE IF rank <= 100 THEN 35000 ELSE 45000

TargetPercent_noFloor(rank, volatility) ==
  LET volatilityMultiplier == Min((18 * Scale) \div 10, volatility \div 3)
  IN (BaseTargetPercent(rank) * volatilityMultiplier) \div Scale
TargetPercent(rank, volatility) ==
  LET volatilityMultiplier ==
        Max((7 * Scale) \div 10, Min((18 * Scale) \div 10, volatility \div 3))
  IN (BaseTargetPercent(rank) * volatilityMultiplier) \div Scale

StopPercent(rank, leverage) ==
  IF leverage >= 5 THEN (BaseStopPercent(rank) * 6) \div 10
  ELSE IF leverage >= 3 THEN (BaseStopPercent(rank) * 8) \div 10
  ELSE BaseStopPercent(rank)

(* currentPrice * (1 + percent) and currentPrice * (1 - percent) *)
Above(price, percent) == price * Scale + (price * percent) \div Scale
Below(price, percent) == price * Scale - (price * percent) \div Scale

(* (level - currentPrice) / currentPrice, in millionths *)
Distance_magnitude(level, price) == (Abs(level - price * Scale) * Scale) \div price
Distance(level, price) == ((level - price * Scale) * Scale) \div price

calculateTargets_neutralOnlyWithoutLevels(crypto, prediction, ind, leverage, enh) ==
  LET currentPrice == crypto.price
      targetPercent == TargetPercent(crypto.rank, ind.volatility)
      stopPercent == StopPercent(crypto.rank, leverage)
  IN IF prediction = "LONG" \/ (prediction = "NEUTRAL" /\ enh.present)
       THEN [targetPrice |-> Above(currentPrice, targetPercent),
             stopLoss |-> Below(currentPrice, stopPercent)]
     ELSE IF prediction = "SHORT"
       THEN [targetPrice |-> Below(currentPrice, targetPercent),
             stopLoss |-> Above(currentPrice, stopPercent)]
     ELSE [targetPrice |-> currentPrice * Scale,
           stopLoss |-> (currentPrice * Scale * 97) \div 100]
calculateTargets(crypto, prediction, ind, leverage, enh) ==
  LET currentPrice == crypto.price
      targetPercent == TargetPercent(crypto.rank, ind.volatility)
      stopPercent == StopPercent(crypto.rank, leverage)
  IN IF enh.present /\ prediction # "NEUTRAL"
       THEN
         IF prediction = "LONG"
           THEN
             [targetPrice |->
                IF Len(enh.resistanceLevels) > 0
                  THEN LET nextResistance == enh.resistanceLevels[1].price
                           resistanceGain == Distance(nextResistance, currentPrice)
                       IN IF resistanceGain > 10000
                             /\ resistanceGain * 10 < targetPercent * 15
                            THEN nextResistance
                            ELSE Above(currentPrice, targetPercent)
                  ELSE Above(currentPrice, targetPercent),
              stopLoss |->
                IF Len(enh.supportLevels) > 0
                  THEN LET nearestSupport == enh.supportLevels[1].price
                           supportDistance == -Distance(nearestSupport, currentPrice)
                       IN IF supportDistance > 5000 /\ supportDistance < stopPercent * 2
                            THEN (nearestSupport * 995) \div 1000
                            ELSE Below(currentPrice, stopPercent)
                  ELSE Below(currentPrice, stopPercent)]
           ELSE
             [targetPrice |->
                IF Len(enh.supportLevels) > 0
                  THEN LET nextSupport == enh.supportLevels[1].price
                           supportDrop == -Distance(nextSupport, currentPrice)
                       IN IF supportDrop > 10000 /\ supportDrop * 10 < targetPercent * 15
                            THEN nextSupport
                            ELSE Below(currentPrice, targetPercent)
                  ELSE Below(currentPrice, targetPercent),
              stopLoss |->
                IF Len(enh.resistanceLevels) > 0
                  THEN LET nearestResistance == enh.resistanceLevels[1].price
                           resistanceDistance == Distance(nearestResistance, currentPrice)
                       IN IF resistanceDistance > 5000
                             /\ resistanceDistance < stopPercent * 2
                            THEN (nearestResistance * 1005) \div 1000
                            ELSE Above(currentPrice, stopPercent)
                  ELSE Above(currentPrice, stopPercent)]
       ELSE
         IF prediction = "LONG"
           THEN [targetPrice |-> Above(currentPrice, targetPercent),
                 stopLoss |-> Below(currentPrice, stopPercent)]
         ELSE IF prediction = "SHORT"
           THEN [targetPrice |-> Below(currentPrice, targetPercent),
                 stopLoss |-> Above(currentPrice, stopPercent)]
         ELSE [targetPrice |-> currentPrice * Scale,
               stopLoss |-> (currentPrice * Scale * 97) \div 100]

(* calculateTimeframe: prediction-engine.ts 583-593 *)
calculateTimeframe(volatility, momentum, rank) ==
  LET strength == Abs(momentum)
  IN IF volatility > 8 * Scale /\ strength > 15 * Scale THEN "4-8h"
     ELSE IF volatility > 6 * Scale THEN "8-24h"
     ELSE IF strength > 20 * Scale /\ volatility > 3 * Scale THEN "1-2d"
     ELSE IF volatility < 2 * Scale /\ strength < 10 * Scale THEN "2-5d"
     ELSE IF rank <= 10 THEN "1-2d"
     ELSE "12-36h"

(* the part of generatePrediction after the fetch: prediction-engine.ts    *)
(* 694-752.  The analysis text is not modelled.                            *)
AssemblePrediction(crypto, ind, enh) ==
  LET prediction == determinePrediction(ind, enh)
      confidence == Confidence(ind, enh)
      leverage == calculateLeverage(confidence, ind.volatility, prediction)
      targets == calculateTargets(crypto, prediction, ind, leverage, enh)
  IN [crypto |-> crypto.id,
      prediction |-> prediction,
      sentiment |-> calculateSentiment(ind, prediction, enh),
      confidence |-> confidence,
      indicators |-> ind,
      reasons |-> generateReasons(crypto, ind, prediction, enh),
      targetPrice |-> targets.targetPrice,
      stopLoss |-> targets.stopLoss,
      timeframe |-> calculateTimeframe(ind.volatility, ind.momentum, crypto.rank),
      leverage |-> leverage,
      riskLevel |-> calculateRiskLevel(ind.volatility, leverage, ind)]

-----------------------------------------------------------------------------
(* Calls of the calculators *)

NoCall == [fn |-> "none"]
NoProfile == [called |-> FALSE]

NoPrediction == [state |-> "idle"]

IndicatorsIdle == prices = <<>> /\ period = 0 /\ calc = NoCall
VolumeIdle == pricesWithVolume = <<>> /\ priceRanges = 0 /\ profile = NoProfile
BatchIdle ==
  /\ cryptos = <<>>
  /\ cursor = 0
  /\ predictions = <<>>
  /\ pc = "idle"
  /\ gp = NoPrediction
  /\ outstanding = 0
  /\ fetchLog = <<>>
  /\ evaluated = <<>>

(* the caller extends the series by one sample *)
AppendPrice ==
  /\ calc = NoCall
  /\ Len(prices) < MaxLen
  /\ \E p \in 1..MaxPrice : prices' = Append(prices, p)
  /\ UNCHANGED <<period, calc, volumeVars, batchVars>>

(* Array.prototype.sort called on the array itself: ascending, in place *)
RECURSIVE SortedInPlace(_)
SortedInPlace(ps) ==
  IF ps = <<>> THEN <<>>
  ELSE LET least == SetMin({ps[i] : i \in 1..Len(ps)})
           at == SetMin({i \in 1..Len(ps) : ps[i] = least})
       IN <<least>> \o SortedInPlace(SubSeq(ps, 1, at - 1) \o SubSeq(ps, at + 1, Len(ps)))

Returned_sortsInput(fn, result) ==
  /\ calc = NoCall
  /\ calc' = [fn |-> fn, result |-> result]
  /\ prices' = SortedInPlace(prices)
  /\ UNCHANGED <<period, volumeVars, batchVars>>
Returned(fn, result) ==
  /\ calc = NoCall
  /\ calc' = [fn |-> fn, result |-> result]
  /\ UNCHANGED <<prices, period, volumeVars, batchVars>>

CallSMA == Returned("calculateSMA", calculateSMA(PriceValues(prices), period))

(* calculateEMA is only reached with a non-empty array (calculateMACD calls *)
(* it after its length guard, and on a history of at least one element)    *)
CallEMA ==
  /\ Len(prices) > 0
  /\ Returned("calculateEMA", calculateEMA(PriceValues(prices), period))

CallRSI == Returned("calculateRSI", calculateRSI(prices, period))

CallMACD == Returned("calculateMACD", calculateMACD(prices))

CallBollinger ==
  Returned("calculateBollingerBands",
           calculateBollingerBands(prices, period, BollingerStdDev))

CallSupportResistance ==
  Returned("detectSupportResistance", detectSupportResistance(prices, SRThreshold))

CallCandlestick ==
  Returned("identifyCandlestickPattern", identifyCandlestickPattern(prices))

(* closing prices around 5000, with steps of 0.04%, 2% and 4% *)
CandlePrices == {4800, 4900, 4998, 5000, 5002, 5100, 5200}

(* the caller holds four closing prices and calls identifyCandlestickPattern *)
CallCandlestickOnSeries ==
  /\ calc = NoCall
  /\ prices = <<>>
  /\ \E p0 \in CandlePrices, p1 \in CandlePrices, p2 \in CandlePrices,
        p3 \in CandlePrices :
       /\ prices' = <<p0, p1, p2, p3>>
       /\ calc' = [fn |-> "identifyCandlestickPattern",
                   result |-> identifyCandlestickPattern(<<p0, p1, p2, p3>>)]
  /\ UNCHANGED <<period, volumeVars, batchVars>>
(* Series for the RSI at its default period: sixteen samples falling from  *)
(* 90 or rising from 10 in steps of 1 or 2, then one last move             *)
TrendSeries ==
  {[i \in 1..17 |-> IF i <= 16 THEN 90 - step * i ELSE 90 - step * 16 + tick] :
     step \in {1, 2}, tick \in {-5, -1, 0, 1, 5}}
  \cup {[i \in 1..17 |-> IF i <= 16 THEN 10 + step * i ELSE 10 + step * 16 + tick] :
          step \in {1, 2}, tick \in {-5, -1, 0, 1, 5}}

(* the caller holds such a series and calls calculateRSI(prices) *)
CallRSIOnSeries ==
  /\ calc = NoCall
  /\ prices = <<>>
  /\ \E series \in TrendSeries :
       /\ prices' = series
       /\ calc' = [fn |-> "calculateRSI", result |-> calculateRSI(series, RSIPeriod)]
  /\ UNCHANGED <<period, volumeVars, batchVars>>
(* Series long enough for the MACD: 26 samples (flat, waving, rising or    *)
(* falling around 50) followed by up to three more samples                 *)
SeriesHeads ==
  {[i \in 1..MACDSlow |-> 50],
   [i \in 1..MACDSlow |-> 50 + <<0, 1, 3, 1, 0, -2>>[(i % 6) + 1]],
   [i \in 1..MACDSlow |-> 45 + i \div 3],
   [i \in 1..MACDSlow |-> 55 - i \div 3]}

SeriesTails ==
  {<<>>}
  \cup {<<a>> : a \in {45, 50, 55}}
  \cup {<<a, b>> : a \in {45, 50, 55}, b \in {45, 50, 55}}
  \cup {<<a, b, c>> : a \in {45, 50, 55}, b \in {45, 50, 55}, c \in {45, 50, 55}}

LongSeries == {head \o tail : head \in SeriesHeads, tail \in SeriesTails}

(* the caller holds a series of 26 to 29 samples and calls calculateMACD *)
CallMACDOnSeries ==
  /\ calc = NoCall
  /\ prices = <<>>
  /\ \E series \in LongSeries :
       /\ prices' = series
       /\ calc' = [fn |-> "calculateMACD", result |-> calculateMACD(series)]
  /\ UNCHANGED <<period, volumeVars, batchVars>>
InitIndicators ==
  /\ prices = <<>>
  /\ period \in 1..MaxPeriod
  /\ calc = NoCall
  /\ VolumeIdle
  /\ BatchIdle

NextIndicators ==
  \/ AppendPrice
  \/ CallSMA
  \/ CallEMA
  \/ CallRSI
  \/ CallRSIOnSeries
  \/ CallMACD
  \/ CallMACDOnSeries
  \/ CallBollinger
  \/ CallSupportResistance
  \/ CallCandlestick
  \/ CallCandlestickOnSeries

SpecIndicators == InitIndicators /\ [][NextIndicators]_vars

(* Longer series for the level detector: a plateau at 100 with one         *)
(* excursion below or above it per swing; the last sample is the current   *)
(* price.                                                                  *)
SwingPrices == {84, 90, 93, 96, 97, 100, 104, 108}

Swing ==
  /\ calc = NoCall
  /\ Len(prices) < 3 * MaxSwings
  /\ \E p \in SwingPrices : prices' = prices \o <<100, 100, p>>
  /\ UNCHANGED <<period, calc, volumeVars, batchVars>>

InitLevels ==
  /\ prices = <<>>
  /\ period = 0
  /\ calc = NoCall
  /\ VolumeIdle
  /\ BatchIdle

NextLevels == Swing \/ CallSupportResistance

SpecLevels == InitLevels /\ [][NextLevels]_vars

(* Calls of calculateVolumeProfile *)
MaxRanges == 2

AddSample ==
  /\ ~profile.called
  /\ Len(pricesWithVolume) < MaxSamples
  /\ \E p \in 1..MaxPrice, v \in 0..MaxVolume :
       pricesWithVolume' = Append(pricesWithVolume, [price |-> p, volume |-> v])
  /\ UNCHANGED <<priceRanges, profile, indicatorVars, batchVars>>

CallVolumeProfile ==
  /\ ~profile.called
  /\ profile' = [called |-> TRUE,
                 result |-> calculateVolumeProfile(pricesWithVolume, priceRanges)]
  /\ UNCHANGED <<pricesWithVolume, priceRanges, indicatorVars, batchVars>>

InitVolume ==
  /\ pricesWithVolume = <<>>
  /\ priceRanges \in (1..MaxRanges) \cup {VolumeRanges}
  /\ profile = NoProfile
  /\ IndicatorsIdle
  /\ BatchIdle

NextVolume == AddSample \/ CallVolumeProfile

SpecVolume == InitVolume /\ [][NextVolume]_vars

-----------------------------------------------------------------------------
(* The prediction assembler: generatePrediction and generatePredictions,   *)
(* prediction-engine.ts 663-776.  One action runs the code from one await  *)
(* to the next.                                                            *)

HistoryDays == 90

Asset(id, change24h, change7d, high, low, price, volume, cap, rank, faulty) ==
  [id |-> id, change24h |-> change24h, change7d |-> change7d, high |-> high,
   low |-> low, price |-> price, volume |-> volume, cap |-> cap, rank |-> rank,
   faulty |-> faulty]

(* The entries the batches are drawn from.  `faulty` says how the entry    *)
(* makes generatePrediction raise: "no" is a well-formed snapshot; "null"  *)
(* is a null entry, whose first field read raises (line 40); "before" is   *)
(* an object whose 24h change cannot be multiplied (a BigInt, line 44);    *)
(* "after" is an object whose name cannot be put into the analysis text    *)
(* (a Symbol, lines 613-656).                                              *)
Assets ==
  { Asset("bitcoin", 8 * Scale, 12 * Scale, 104, 100, 102, 20, 100, 5, "no"),
    Asset("ethereum", -6 * Scale, -11 * Scale, 110, 100, 104, 2, 100, 20, "no"),
    Asset("tether", Scale \div 5, Scale \div 2, 101, 100, 100, 10, 100, 60, "no"),
    Asset("pepe", 30 * Scale, 80 * Scale, 60, 50, 55, 30, 100, 150, "no"),
    Asset("broken", 3 * Scale, 0, 11, 10, 10, 10, 100, 40, "before"),
    Asset("cursed", -3 * Scale, 0, 11, 10, 10, 10, 100, 120, "after"),
    Asset("", 0, 0, 1, 1, 1, 1, 1, 1, "null") }

RECURSIVE ListsOf(_, _)
ListsOf(S, n) ==
  IF n = 0 THEN {<<>>}
  ELSE LET shorter == ListsOf(S, n - 1)
       IN shorter \cup {Append(l, a) : l \in {x \in shorter : Len(x) = n - 1}, a \in S}

(* the price histories the provider answers with *)
Waves == [i \in 1..30 |-> 50 + <<0, 1, 3, 1, 0, -2>>[(i % 6) + 1]]
Rising == [i \in 1..30 |-> 50 + i \div 3]
Falling == [i \in 1..30 |-> 60 - i \div 3]
Drop == <<60, 58, 56, 54, 52, 50, 48, 46, 44>>
Histories == {<<>>, <<52>>, <<50, 52, 51>>, Drop, Waves, Rising, Falling}

(* how a fetchPriceHistory call settles *)
Outcomes ==
  {[kind |-> "rejects"], [kind |-> "null"], [kind |-> "undefined"],
   [kind |-> "noPrices"]}
  \cup {[kind |-> "history", prices |-> h] : h \in Histories}

(* the body of the try block, lines 671-688: threw = TRUE when it raises.  *)
(* A rejected fetch raises at the await; a payload without `prices` raises *)
(* a TypeError at priceHistory.prices.length.                              *)
TryBlock(outcome) ==
  IF outcome.kind \in {"rejects", "noPrices"}
    THEN [threw |-> TRUE, enhanced |-> NullEnhanced]
  ELSE IF outcome.kind \in {"null", "undefined"}
    THEN [threw |-> FALSE, enhanced |-> NullEnhanced]
  ELSE IF Len(outcome.prices) > 0
    THEN [threw |-> FALSE,
          enhanced |->
            Enhanced(calculateRSI(outcome.prices, RSIPeriod),
                     calculateMACD(outcome.prices),
                     calculateBollingerBands(outcome.prices, BollingerPeriod,
                                             BollingerStdDev),
                     detectSupportResistance(outcome.prices, SRThreshold))]
  ELSE [threw |-> FALSE, enhanced |-> NullEnhanced]

(* try { ... } catch (error) { console.error(...) }, lines 670-692 *)
FetchAndEnhance_noCatch(outcome) == TryBlock(outcome)
FetchAndEnhance(outcome) ==
  LET t == TryBlock(outcome)
  IN [threw |-> FALSE, enhanced |-> IF t.threw THEN NullEnhanced ELSE t.enhanced]

(* generatePredictions(cryptos) is called: lines 760-765 *)
StartBatch ==
  /\ pc = "idle"
  /\ calc = NoCall
  /\ \E list \in ListsOf(Assets, MaxAssets) : cryptos' = list
  /\ pc' = "running"
  /\ cursor' = 1
  /\ UNCHANGED <<predictions, gp, outstanding, fetchLog, evaluated,
                 indicatorVars, volumeVars>>

CallGeneratePrediction_prefetch ==
  /\ pc = "running"
  /\ gp = NoPrediction
  /\ cursor <= Len(cryptos)
  /\ IF cryptos[cursor].faulty \in {"null", "before"}
       THEN /\ gp' = [state |-> "rejected", fetched |-> FALSE]
            /\ UNCHANGED <<outstanding, fetchLog>>
       ELSE /\ gp' = [state |-> "awaiting",
                      indicators |-> calculateBasicIndicators(cryptos[cursor])]
            /\ IF cursor < Len(cryptos)
                 THEN /\ outstanding' = outstanding + 2
                      /\ fetchLog' = fetchLog \o <<<<cryptos[cursor].id, HistoryDays>>,
                                                   <<cryptos[cursor + 1].id, HistoryDays>>>>
                 ELSE /\ outstanding' = outstanding + 1
                      /\ fetchLog' = Append(fetchLog, <<cryptos[cursor].id, HistoryDays>>)
  /\ UNCHANGED <<cryptos, cursor, predictions, pc, evaluated, indicatorVars, volumeVars>>
(* generatePrediction(crypto) runs to its await: lines 663-671 *)
CallGeneratePrediction ==
  /\ pc = "running"
  /\ gp = NoPrediction
  /\ cursor <= Len(cryptos)
  /\ IF cryptos[cursor].faulty \in {"null", "before"}
       THEN /\ gp' = [state |-> "rejected", fetched |-> FALSE]
            /\ UNCHANGED <<outstanding, fetchLog>>
       ELSE /\ gp' = [state |-> "awaiting",
                      indicators |-> calculateBasicIndicators(cryptos[cursor])]
            /\ outstanding' = outstanding + 1
            /\ fetchLog' = Append(fetchLog, <<cryptos[cursor].id, HistoryDays>>)
  /\ UNCHANGED <<cryptos, cursor, predictions, pc, evaluated, indicatorVars, volumeVars>>

FetchSettles_retry ==
  /\ gp.state = "awaiting"
  /\ \E o \in Outcomes :
       IF o.kind = "rejects" /\ Len(fetchLog) <= Len(cryptos)
         THEN /\ fetchLog' = Append(fetchLog, <<cryptos[cursor].id, HistoryDays>>)
              /\ UNCHANGED <<gp, outstanding>>
         ELSE /\ gp' = [state |-> "settled", indicators |-> gp.indicators, outcome |-> o]
              /\ outstanding' = outstanding - 1
              /\ UNCHANGED fetchLog
  /\ UNCHANGED <<cryptos, cursor, predictions, pc, evaluated,
                 indicatorVars, volumeVars>>
(* the provider settles the fetch *)
FetchSettles ==
  /\ gp.state = "awaiting"
  /\ \E o \in Outcomes :
       gp' = [state |-> "settled", indicators |-> gp.indicators, outcome |-> o]
  /\ outstanding' = outstanding - 1
  /\ UNCHANGED <<cryptos, cursor, predictions, pc, fetchLog, evaluated,
                 indicatorVars, volumeVars>>

(* generatePrediction runs from the await to its end: lines 671-753 *)
ResumeGeneratePrediction ==
  /\ gp.state = "settled"
  /\ LET r == FetchAndEnhance(gp.outcome)
     IN IF r.threw \/ cryptos[cursor].faulty = "after"
          THEN gp' = [state |-> "rejected", fetched |-> TRUE, outcome |-> gp.outcome]
          ELSE gp' = [state |-> "resolved", fetched |-> TRUE, outcome |-> gp.outcome,
                      value |-> AssemblePrediction(cryptos[cursor], gp.indicators,
                                                   r.enhanced)]
  /\ UNCHANGED <<cryptos, cursor, predictions, pc, outstanding, fetchLog, evaluated,
                 indicatorVars, volumeVars>>

ContinueBatch_prepends ==
  /\ pc = "running"
  /\ gp.state \in {"resolved", "rejected"}
  /\ IF gp.state = "resolved"
       THEN /\ predictions' = <<gp.value>> \o predictions
            /\ cursor' = cursor + 1
            /\ pc' = pc
       ELSE IF cryptos[cursor].faulty = "null"
         THEN /\ pc' = "rejected"
              /\ UNCHANGED <<predictions, cursor>>
         ELSE /\ cursor' = cursor + 1
              /\ UNCHANGED <<predictions, pc>>
  /\ evaluated' = Append(evaluated, gp.state)
  /\ gp' = NoPrediction
  /\ UNCHANGED <<cryptos, outstanding, fetchLog, indicatorVars, volumeVars>>

(* The loop body after its await, lines 766-773: push, or catch and log.  *)
(* The log line reads crypto.id, which raises inside the catch block when  *)
(* the entry is null, and the exception leaves generatePredictions.        *)
ContinueBatch ==
  /\ pc = "running"
  /\ gp.state \in {"resolved", "rejected"}
  /\ IF gp.state = "resolved"
       THEN /\ predictions' = Append(predictions, gp.value)
            /\ cursor' = cursor + 1
            /\ pc' = pc
       ELSE IF cryptos[cursor].faulty = "null"
         THEN /\ pc' = "rejected"
              /\ UNCHANGED <<predictions, cursor>>
         ELSE /\ cursor' = cursor + 1
              /\ UNCHANGED <<predictions, pc>>
  /\ evaluated' = Append(evaluated, gp.state)
  /\ gp' = NoPrediction
  /\ UNCHANGED <<cryptos, outstanding, fetchLog, indicatorVars, volumeVars>>

(* return predictions: line 775 *)
ReturnBatch ==
  /\ pc = "running"
  /\ gp = NoPrediction
  /\ cursor > Len(cryptos)
  /\ pc' = "returned"
  /\ UNCHANGED <<cryptos, cursor, predictions, gp, outstanding, fetchLog, evaluated,
                 indicatorVars, volumeVars>>

(* a direct call of calculateLeverage *)
Volatilities ==
  {(v * Scale) \div 2 : v \in 0..MaxVolatilitySteps} \cup {100 * Scale, 250 * Scale}

CallLeverage ==
  /\ pc = "idle"
  /\ calc = NoCall
  /\ \E confidence \in 0..100, volatility \in Volatilities,
        prediction \in {"LONG", "SHORT", "NEUTRAL"} :
       calc' = [fn |-> "calculateLeverage",
                args |-> [confidence |-> confidence, volatility |-> volatility,
                          prediction |-> prediction],
                result |-> calculateLeverage(confidence, volatility, prediction)]
  /\ UNCHANGED <<prices, period, volumeVars, batchVars>>

Init ==
  /\ IndicatorsIdle
  /\ VolumeIdle
  /\ BatchIdle

Next ==
  \/ StartBatch
  \/ CallGeneratePrediction
  \/ FetchSettles
  \/ ResumeGeneratePrediction
  \/ ContinueBatch
  \/ ReturnBatch
  \/ CallLeverage

Spec == Init /\ [][Next]_vars

(* The batch under the scheduling of the code: a continuation that can run *)
(* does run (the event loop), and every fetch that was issued settles (the *)
(* provider's part).                                                       *)
(* ResumeGeneratePrediction is enabled exactly when the fetch has settled:  *)
(* its weak fairness is written out with that state predicate.             *)
Fairness ==
  /\ WF_vars(CallGeneratePrediction)
  /\ WF_vars(FetchSettles)
  /\ ([]<>(gp.state # "settled") \/ []<><<ResumeGeneratePrediction>>_vars)
  /\ WF_vars(ContinueBatch)
  /\ WF_vars(ReturnBatch)

SpecFair == Init /\ [][Next]_vars /\ Fairness
(* Any operation of the library may be called: the calculators on a series *)
(* the caller holds, the volume profile, and the batch assembler.          *)
InitFrames == InitIndicators \/ InitVolume \/ Init

NextFrames ==
  \/ period > 0 /\ NextIndicators
  \/ priceRanges > 0 /\ NextVolume
  \/ period = 0 /\ priceRanges = 0 /\ Next

SpecFrames == InitFrames /\ [][NextFrames]_vars
-----------------------------------------------------------------------------
(* Direct calls of the engine functions, prediction-engine.ts 39-574, on   *)
(* values of their parameter types.                                        *)

Trends == {"bullish", "bearish", "neutral"}
Directions == {"LONG", "SHORT", "NEUTRAL"}

(* momentum values around the thresholds 2, 5 and 10, in fixed point *)
Momenta ==
  {-100 * Scale, -10 * Scale - 1, -5 * Scale - 1, -2 * Scale - 1, -2 * Scale, 0,
   2 * Scale, 2 * Scale + 1, 5 * Scale + 1, 10 * Scale + 1, 100 * Scale}

(* volume signal and strength, around the thresholds 45 and 55 *)
VolumeStrengths ==
  {<<"high", 60 * Scale>>, <<"high", 50 * Scale>>, <<"high", 40 * Scale>>,
   <<"normal", 50 * Scale>>, <<"low", 50 * Scale>>}

Indicators(momentum, trend_24h, trend_7d, volume_signal, strength, volatility) ==
  [trend_24h |-> trend_24h, trend_7d |-> trend_7d, momentum |-> momentum,
   volume_signal |-> volume_signal, volatility |-> volatility, strength |-> strength]

(* the indicators of an asset up 8% in 24h and 12% in 7d *)
ScenarioIndicators ==
  calculateBasicIndicators(
    Asset("bitcoin", 8 * Scale, 12 * Scale, 104, 100, 102, 20, 100, 5, "no"))

IndicatorValues ==
  {Indicators(m, t24, t7, vs[1], vs[2], 3 * Scale) :
     m \in Momenta, t24 \in Trends, t7 \in Trends, vs \in VolumeStrengths}
  \cup {ScenarioIndicators}

(* RSIIndicator values: the signal follows the value, the trend is free *)
RSIValues ==
  {[value |-> v[1], signal |-> v[2], trend |-> t] :
     v \in {<<25 * Scale, "oversold">>, <<75 * Scale, "overbought">>},
     t \in Trends}
  \cup {[value |-> 40 * Scale, signal |-> "neutral", trend |-> "bearish"],
        [value |-> 60 * Scale, signal |-> "neutral", trend |-> "bullish"],
        [value |-> 50 * Scale, signal |-> "neutral", trend |-> "neutral"]}

MACDValues ==
  {[macd |-> 0, signal |-> 0, histogram |-> 0, trend |-> "neutral", crossover |-> "none"],
   [macd |-> 2, signal |-> 1, histogram |-> 1, trend |-> "bullish", crossover |-> "none"],
   [macd |-> 1, signal |-> 2, histogram |-> -1, trend |-> "bearish", crossover |-> "none"],
   [macd |-> 2, signal |-> 1, histogram |-> 1, trend |-> "bullish",
    crossover |-> "bullish_crossover"],
   [macd |-> 1, signal |-> 2, histogram |-> -1, trend |-> "bearish",
    crossover |-> "bearish_crossover"]}

BollingerValue(position, signal, bandwidth) ==
  [upper |-> 105 * Scale, middle |-> 100 * Scale, lower |-> 95 * Scale,
   bandwidth |-> bandwidth, position |-> position, signal |-> signal, nan |-> FALSE]

BollingerValues ==
  {BollingerValue("middle", "neutral", 10 * Scale),
   BollingerValue("near_lower", "oversold", 3 * Scale),
   BollingerValue("near_upper", "overbought", 3 * Scale),
   BollingerValue("below_lower", "oversold", 10 * Scale),
   BollingerValue("above_upper", "overbought", 10 * Scale)}

Level(price, type, touches) == formatLevel([price |-> price, touches |-> touches], type)

LevelValues ==
  {[supports |-> s, resistances |-> r] :
     s \in {<<>>, <<Level(97 * Scale, "support", 3)>>},
     r \in {<<>>, <<Level(103 * Scale, "resistance", 3)>>}}

EnhancedValues ==
  {NullEnhanced}
  \cup {Enhanced(rsi, macd, bb, sr) :
          rsi \in RSIValues, macd \in MACDValues, bb \in BollingerValues,
          sr \in LevelValues}

CallDeterminePrediction ==
  /\ calc = NoCall
  /\ \E ind \in IndicatorValues, enh \in EnhancedValues :
       calc' = [fn |-> "determinePrediction",
                args |-> [indicators |-> ind, enhanced |-> enh],
                result |-> determinePrediction(ind, enh)]
  /\ UNCHANGED <<prices, period, volumeVars, batchVars>>

(* snapshots for the engine: 24h / 7d change, 24h range and volume vary *)
EngineSnapshots ==
  {Asset("coin", c24, c7, hl[1], hl[2], hl[3], v, 100, 20, "no") :
     c24 \in {-8 * Scale, -(4 * Scale) \div 10, 0, 3 * Scale, 8 * Scale},
     c7 \in {-12 * Scale, 0, 12 * Scale},
     hl \in {<<101, 100, 100>>, <<110, 100, 104>>},
     v \in {2, 10, 20}}

(* generatePrediction from line 694 on, with enhancedIndicators holding a  *)
(* value of its type                                                       *)
CallAssemble ==
  /\ calc = NoCall
  /\ \E crypto \in EngineSnapshots, enh \in EnhancedValues :
       LET ind == calculateBasicIndicators(crypto)
       IN calc' = [fn |-> "generatePrediction",
                   args |-> [crypto |-> crypto, indicators |-> ind, enhanced |-> enh],
                   result |-> AssemblePrediction(crypto, ind, enh)]
  /\ UNCHANGED <<prices, period, volumeVars, batchVars>>
(* snapshots for calculateBasicIndicators: changes beyond the clamps, a    *)
(* 24h range wider than the price, and a 24h high below the 24h low        *)
RangeSnapshots ==
  {Asset("coin", c24, c7, hl[1], hl[2], hl[3], 10, 100, 20, "no") :
     c24 \in {-60 * Scale, -8 * Scale, 0, 8 * Scale, 60 * Scale},
     c7 \in {-200 * Scale, -12 * Scale, 0, 12 * Scale, 200 * Scale},
     hl \in {<<101, 100, 100>>, <<110, 100, 104>>, <<300, 100, 150>>,
             <<90, 100, 95>>}}

CallBasicIndicators ==
  /\ calc = NoCall
  /\ \E crypto \in RangeSnapshots :
       calc' = [fn |-> "calculateBasicIndicators",
                args |-> [crypto |-> crypto],
                result |-> calculateBasicIndicators(crypto)]
  /\ UNCHANGED <<prices, period, volumeVars, batchVars>>
(* level prices around a current price of 100: 5% and 0.3% below, 0.3%,    *)
(* 3% and 20% above; a list holds up to two levels in any order, of        *)
(* either side of the price                                                *)
LevelPrices == {95 * Scale, 100 * Scale - 300, 100 * Scale + 300, 103 * Scale, 120 * Scale}

LevelLists(type) ==
  {<<>>}
  \cup {<<Level(a, type, 1)>> : a \in LevelPrices}
  \cup {<<Level(a, type, 1), Level(b, type, 1)>> : a \in LevelPrices, b \in LevelPrices}

EnhancedWithLevels(supports, resistances) ==
  Enhanced(RSIDefault, MACDDefault, BollingerValue("middle", "neutral", 10 * Scale),
           [supports |-> supports, resistances |-> resistances])

CallTargets ==
  /\ calc = NoCall
  /\ \E rank \in {5, 40, 150}, volatility \in {0, 3 * Scale, 9 * Scale},
        leverage \in {1, 5}, prediction \in Directions,
        enh \in {NullEnhanced}
                  \cup {EnhancedWithLevels(s, r) :
                          s \in LevelLists("support"), r \in LevelLists("resistance")} :
       LET crypto == Asset("coin", 0, 0, 100, 100, 100, 10, 100, rank, "no")
           ind == Indicators(0, "neutral", "neutral", "normal", 50 * Scale, volatility)
       IN calc' = [fn |-> "calculateTargets",
                   args |-> [crypto |-> crypto, prediction |-> prediction,
                             indicators |-> ind, leverage |-> leverage,
                             enhanced |-> enh],
                   result |-> calculateTargets(crypto, prediction, ind, leverage, enh)]
  /\ UNCHANGED <<prices, period, volumeVars, batchVars>>
CallSentiment ==
  /\ calc = NoCall
  /\ \E momentum \in {-100 * Scale, -30 * Scale, 0, 30 * Scale, 100 * Scale},
        strength \in {0, 50 * Scale, 100 * Scale},
        prediction \in Directions, enh \in EnhancedValues :
       LET ind == Indicators(momentum, "neutral", "neutral", "normal", strength, 0)
       IN calc' = [fn |-> "calculateSentiment",
                   args |-> [indicators |-> ind, prediction |-> prediction,
                             enhanced |-> enh],
                   result |-> calculateSentiment(ind, prediction, enh)]
  /\ UNCHANGED <<prices, period, volumeVars, batchVars>>
(* calculateTargets without usable levels: every rank tier and its         *)
(* boundaries, every leverage 1..10, volatility from 0 upwards             *)
TierRanks == {1, 10, 11, 30, 31, 50, 51, 100, 101, 150}

CallPercentageTargets ==
  /\ calc = NoCall
  /\ \E rank \in TierRanks, volatility \in Volatilities, leverage \in 1..10,
        prediction \in Directions, price \in {1, 100, 2000},
        enh \in {NullEnhanced, EnhancedWithLevels(<<>>, <<>>)} :
       LET crypto == Asset("coin", 0, 0, price, price, price, 10, 100, rank, "no")
           ind == Indicators(0, "neutral", "neutral", "normal", 50 * Scale, volatility)
       IN calc' = [fn |-> "calculateTargets",
                   args |-> [crypto |-> crypto, prediction |-> prediction,
                             indicators |-> ind, leverage |-> leverage,
                             enhanced |-> enh],
                   result |-> calculateTargets(crypto, prediction, ind, leverage, enh)]
  /\ UNCHANGED <<prices, period, volumeVars, batchVars>>
InitEngine ==
  /\ IndicatorsIdle
  /\ VolumeIdle
  /\ BatchIdle

NextEngine ==
  \/ CallDeterminePrediction
  \/ CallAssemble
  \/ CallBasicIndicators
  \/ CallTargets
  \/ CallPercentageTargets
  \/ CallSentiment

SpecEngine == InitEngine /\ [][NextEngine]_vars
-----------------------------------------------------------------------------
(* Claims about the calculators *)

Mean(vals) == Sum(vals) \div Len(vals)
LastOf(s) == s[Len(s)]

(* C3: a series shorter than a calculator's minimum window, the empty      *)
(* series included, yields exactly the calculator's default: RSI 50 /      *)
(* neutral / neutral; MACD all zero, neutral, none; Bollinger the numbers  *)
(* last * 1.05, last, last * 0.95 with bandwidth 10, middle, neutral; no   *)
(* levels; pattern none, neutral, confidence 0.                            *)
C3_ShortSeriesDefault ==
  /\ (calc.fn = "calculateRSI" /\ Len(prices) < period + 1)
       => calc.result = RSIDefault
  /\ (calc.fn = "calculateMACD" /\ Len(prices) < MACDSlow)
       => calc.result = MACDDefault
  /\ (calc.fn = "calculateBollingerBands" /\ Len(prices) < period)
       => /\ ~calc.result.nan
          /\ calc.result.upper = (LastOf(prices) * Scale * 105) \div 100
          /\ calc.result.middle = LastOf(prices) * Scale
          /\ calc.result.lower = (LastOf(prices) * Scale * 95) \div 100
          /\ calc.result.bandwidth = 10 * Scale
          /\ calc.result.position = "middle"
          /\ calc.result.signal = "neutral"
  /\ (calc.fn = "detectSupportResistance" /\ Len(prices) < SRMinLength)
       => calc.result = [supports |-> <<>>, resistances |-> <<>>]
  /\ (calc.fn = "identifyCandlestickPattern" /\ Len(prices) < CandleMinLength)
       => calc.result = Candle("none", "neutral", 0)

(* C6: at most 3 supports and 3 resistances; each support strictly below   *)
(* the current price and above 0.8 of it, each resistance strictly above   *)
(* it and below 1.2 of it; supports by descending price, resistances by    *)
(* ascending price.                                                        *)
CurrentPrice == LastOf(prices) * Scale

C6_LevelsBoundedAndSorted ==
  calc.fn = "detectSupportResistance" =>
    LET sup == calc.result.supports
        res == calc.result.resistances
    IN /\ Len(sup) <= 3
       /\ Len(res) <= 3
       /\ \A i \in 1..Len(sup) :
            /\ sup[i].price < CurrentPrice
            /\ sup[i].price * 10 > CurrentPrice * 8
       /\ \A i \in 1..Len(res) :
            /\ res[i].price > CurrentPrice
            /\ res[i].price * 10 < CurrentPrice * 12
       /\ \A i \in 1..(Len(sup) - 1) : sup[i].price >= sup[i + 1].price
       /\ \A i \in 1..(Len(res) - 1) : res[i].price <= res[i + 1].price

(* a series with more than 3 supports in range, of which 3 were returned *)
C6_Witness ==
  /\ calc.fn = "detectSupportResistance"
  /\ Len(calc.result.supports) = 3
  /\ LET raw == RawSupports(PriceValues(prices), SRThreshold)
     IN Cardinality({j \in 1..Len(raw) : IsRelevantSupport(raw[j], CurrentPrice)}) > 3

(* C7: with at least `period` samples and the default multiplier,          *)
(* lower <= middle <= upper, middle is the mean of the last `period`       *)
(* prices, and upper - middle = middle - lower.                            *)
C7_BandsOrderedAndSymmetric ==
  (calc.fn = "calculateBollingerBands" /\ Len(prices) >= period) =>
    /\ calc.result.lower <= calc.result.middle
    /\ calc.result.middle <= calc.result.upper
    /\ calc.result.middle = Mean(SliceLast(PriceValues(prices), period))
    /\ calc.result.upper - calc.result.middle = calc.result.middle - calc.result.lower

C7_Witness ==
  /\ calc.fn = "calculateBollingerBands"
  /\ Len(prices) > period
  /\ calc.result.lower < calc.result.middle
  /\ calc.result.middle < calc.result.upper

(* C8: for a non-empty list of pairs with total volume > 0, a single pair  *)
(* and equal prices included, calculateVolumeProfile returns, the          *)
(* percentages sum to 100 (up to rounding, one unit per bucket) and the    *)
(* volumes to the total input volume.                                      *)
TotalVolume == Sum([i \in 1..Len(pricesWithVolume) |-> pricesWithVolume[i].volume])

C8_ProfileSumsToTotal ==
  (profile.called /\ Len(pricesWithVolume) > 0 /\ TotalVolume > 0) =>
    /\ ~profile.result.threw
    /\ LET b == profile.result.buckets
           pct == Sum([i \in 1..Len(b) |-> b[i].percentage])
       IN /\ Abs(pct - 100 * Scale) <= Len(b)
          /\ Sum([i \in 1..Len(b) |-> b[i].volume]) = TotalVolume

C10_FullWindowAveragesAreMean ==
  /\ (calc.fn = "calculateSMA" /\ Len(prices) > 0 /\ period = Len(prices))
       => calc.result = Mean(PriceValues(prices))
  /\ (calc.fn = "calculateEMA" /\ Len(prices) > 0 /\ period >= Len(prices))
       => calc.result = Mean(PriceValues(prices))

(* calculateEMA on a series shorter than period whose last sample is not its mean *)
C10_Witness ==
  /\ calc.fn = "calculateEMA"
  /\ Len(prices) > 1
  /\ Len(prices) < period
  /\ LastOf(prices) * Scale # Mean(PriceValues(prices))
  /\ calc.result = Mean(PriceValues(prices))

-----------------------------------------------------------------------------
(* Claims about the assembler *)

ProviderFailed(outcome) ==
  \/ outcome.kind \in {"rejects", "null", "undefined", "noPrices"}
  \/ outcome.kind = "history" /\ outcome.prices = <<>>

(* C1: when fetchPriceHistory rejects, resolves to null or undefined,      *)
(* resolves to a payload with an empty prices array or to a payload with   *)
(* no prices array, generatePrediction (given a well-formed snapshot) does *)
(* not reject: it resolves with the Prediction computed from the basic     *)
(* indicators with enhancedIndicators = null.                              *)
C1_ProviderFailureDegradesToBasic ==
  (/\ gp.state \in {"resolved", "rejected"}
   /\ cryptos[cursor].faulty = "no"
   /\ ProviderFailed(gp.outcome))
  => /\ gp.state = "resolved"
     /\ gp.value = AssemblePrediction(cryptos[cursor],
                                      calculateBasicIndicators(cryptos[cursor]),
                                      NullEnhanced)

C1_Witness ==
  /\ gp.state = "resolved"
  /\ gp.outcome.kind = "rejects"
  /\ gp.value.prediction = "LONG"

(* C2: generatePredictions never rejects, whichever entries make           *)
(* generatePrediction raise; when it returns, every entry of the list has  *)
(* been evaluated, and the result holds one prediction per entry whose     *)
(* evaluation resolved and none for an entry whose evaluation raised.      *)
C2_BatchIsolatesFailures ==
  /\ pc # "rejected"
  /\ pc = "returned" =>
       /\ Len(evaluated) = Len(cryptos)
       /\ \A a \in Assets :
            Cardinality({i \in 1..Len(predictions) : predictions[i].crypto = a.id})
              = Cardinality({j \in 1..Len(cryptos) :
                               cryptos[j] = a /\ evaluated[j] = "resolved"})

(* C4: calculateLeverage returns a whole number in 1..10 for every         *)
(* confidence in 0..100, volatility >= 0 and direction, and 1 when the     *)
(* direction is NEUTRAL; the same holds of the leverage of every           *)
(* Prediction generatePrediction resolves with.                            *)
LeverageInRange(leverage, prediction) ==
  /\ leverage \in 1..10
  /\ prediction = "NEUTRAL" => leverage = 1

C4_LeverageInRange ==
  /\ calc.fn = "calculateLeverage" =>
       LeverageInRange(calc.result, calc.args.prediction)
  /\ gp.state = "resolved" =>
       LeverageInRange(gp.value.leverage, gp.value.prediction)
  /\ \A i \in 1..Len(predictions) :
       LeverageInRange(predictions[i].leverage, predictions[i].prediction)

C4_Witness ==
  /\ calc.fn = "calculateLeverage"
  /\ calc.args.prediction = "NEUTRAL"
  /\ calc.args.confidence = 100
  /\ calc.args.volatility = 0
  /\ calc.result = 1

-----------------------------------------------------------------------------
(* Claims about RSI and the decision engine *)

StrictlyIncreasing(ps) == \A i \in 1..(Len(ps) - 1) : ps[i] < ps[i + 1]

(* C11: on a strictly increasing series longer than the period            *)
(* calculateRSI returns a value above 70 and at most 100 with signal       *)
(* overbought (a loss-free series takes RS = 100 instead of dividing by    *)
(* zero); on every series of at least period + 1 samples the value lies    *)
(* in [0, 100].                                                            *)
C11_RSIBounded ==
  (calc.fn = "calculateRSI" /\ Len(prices) >= period + 1) =>
    /\ calc.result.value >= 0
    /\ calc.result.value <= 100 * Scale
    /\ StrictlyIncreasing(prices) =>
         /\ calc.result.value > 70 * Scale
         /\ calc.result.signal = "overbought"

C11_Witness ==
  /\ calc.fn = "calculateRSI"
  /\ Len(prices) = 3
  /\ period = 2
  /\ StrictlyIncreasing(prices)
  /\ calc.result.value > 99 * Scale

ScoreDifference ==
  BullishScore(calc.args.indicators, calc.args.enhanced)
    - BearishScore(calc.args.indicators, calc.args.enhanced)

(* C12: determinePrediction returns LONG when bullishScore - bearishScore  *)
(* >= 3 and SHORT when it is <= -3, whatever the momentum; in between it   *)
(* returns LONG for momentum > 2, SHORT for momentum < -2 and NEUTRAL      *)
(* otherwise, so NEUTRAL exactly when |difference| < 3 and                 *)
(* -2 <= momentum <= 2.                                                    *)
C12_ScoreThenMomentum ==
  calc.fn = "determinePrediction" =>
    LET d == ScoreDifference
        m == calc.args.indicators.momentum
    IN /\ d >= 3 => calc.result = "LONG"
       /\ d <= -3 => calc.result = "SHORT"
       /\ (d > -3 /\ d < 3 /\ m > 2 * Scale) => calc.result = "LONG"
       /\ (d > -3 /\ d < 3 /\ m < -2 * Scale) => calc.result = "SHORT"
       /\ calc.result = "NEUTRAL" <=>
            (d > -3 /\ d < 3 /\ m >= -2 * Scale /\ m <= 2 * Scale)

C12_Witness ==
  /\ calc.fn = "determinePrediction"
  /\ ScoreDifference >= 3
  /\ calc.args.indicators.momentum < -2 * Scale
  /\ calc.result = "LONG"

(* C13: with enhancedIndicators = null determinePrediction returns LONG    *)
(* exactly when momentum > 2, SHORT exactly when momentum < -2 and         *)
(* NEUTRAL otherwise, whatever the trends, strength and volume signal      *)
(* are; the asset up 8% in 24h and 12% in 7d yields LONG.                  *)
C13_BasicOnlyFollowsMomentum ==
  (calc.fn = "determinePrediction" /\ ~calc.args.enhanced.present) =>
    LET m == calc.args.indicators.momentum
    IN /\ calc.result = "LONG" <=> m > 2 * Scale
       /\ calc.result = "SHORT" <=> m < -2 * Scale
       /\ calc.result = "NEUTRAL" <=> (m >= -2 * Scale /\ m <= 2 * Scale)
       /\ calc.args.indicators = ScenarioIndicators => calc.result = "LONG"

C13_Witness ==
  /\ calc.fn = "determinePrediction"
  /\ ~calc.args.enhanced.present
  /\ calc.args.indicators = ScenarioIndicators
  /\ calc.args.indicators.momentum > 9 * Scale
  /\ calc.args.indicators.trend_24h = "bullish"
  /\ calc.args.indicators.trend_7d = "bullish"
  /\ calc.result = "LONG"

StrongBuySetup(enh) ==
  /\ enh.present
  /\ enh.rsi.signal = "oversold"
  /\ enh.rsi.trend = "bullish"
  /\ enh.macd.crossover = "bullish_crossover"

(* C14: with RSI oversold and rising and a bullish MACD crossover the      *)
(* bullish score is at least 6 and the technical bonus at least 25, so     *)
(* the confidence is at least 60; when no bearish rule scores, the         *)
(* direction is LONG.                                                      *)
C14_StrongBuySetup ==
  (calc.fn \in {"determinePrediction", "generatePrediction"}
     /\ StrongBuySetup(calc.args.enhanced)) =>
    LET ind == calc.args.indicators
        enh == calc.args.enhanced
        direction == IF calc.fn = "determinePrediction" THEN calc.result
                     ELSE calc.result.prediction
    IN /\ BullishScore(ind, enh) >= 6
       /\ TechBonus(enh) >= 25
       /\ calc.fn = "generatePrediction" => calc.result.confidence >= 60
       /\ BearishScore(ind, enh) = 0 => direction = "LONG"

C14_Witness ==
  /\ calc.fn = "generatePrediction"
  /\ StrongBuySetup(calc.args.enhanced)
  /\ BearishScore(calc.args.indicators, calc.args.enhanced) = 0
  /\ calc.args.indicators.momentum < 0
  /\ calc.result.confidence <= 61
  /\ calc.result.prediction = "LONG"

ExpectedConfidence(ind, enh) ==
  LET volumeBonus == CASE ind.volume_signal = "high" -> 10
                       [] ind.volume_signal = "low" -> -5
                       [] OTHER -> 0
      techBonus ==
        IF ~enh.present THEN 0
        ELSE (IF enh.rsi.signal = "oversold" \/ enh.rsi.signal = "overbought"
                THEN 10 ELSE 0)
           + (IF enh.macd.crossover = "none" THEN 0 ELSE 15)
           + (IF enh.bollingerBands.signal = "neutral" THEN 0 ELSE 8)
      raw == 40 * Scale + (Abs(ind.momentum) * 18) \div 10
               + (volumeBonus + techBonus) * Scale
  IN MathRound(Clamp(30 * Scale, 100 * Scale, raw))

(* C15: the confidence of a Prediction is a whole number in 30..100, equal *)
(* to round(clamp(30, 100, 40 + |momentum| * 1.8 + volumeBonus +           *)
(* techBonus)), volumeBonus being +10 / -5 / 0 for high / low / normal     *)
(* volume and techBonus 0 without enhanced indicators, otherwise +10 for   *)
(* an RSI signal that is not neutral, +15 for a MACD crossover, +8 for a   *)
(* Bollinger signal that is not neutral.                                   *)
C15_ConfidenceFormula ==
  /\ calc.fn = "generatePrediction" =>
       /\ calc.result.confidence \in 30..100
       /\ calc.result.confidence =
            ExpectedConfidence(calc.args.indicators, calc.args.enhanced)
  /\ gp.state = "resolved" => gp.value.confidence \in 30..100

C15_Witness ==
  /\ calc.fn = "generatePrediction"
  /\ calc.args.indicators.volume_signal = "low"
  /\ calc.args.enhanced.present
  /\ calc.args.enhanced.rsi.signal = "overbought"
  /\ calc.args.enhanced.macd.crossover = "bearish_crossover"
  /\ calc.args.enhanced.bollingerBands.signal = "overbought"
  /\ calc.result.confidence = 68

(* C16: for every snapshot with a positive current price                   *)
(* calculateBasicIndicators returns momentum in [-100, 100], volatility    *)
(* in [0, 100] and strength in [0, 100].                                   *)
C16_BasicIndicatorRanges ==
  (calc.fn = "calculateBasicIndicators" /\ calc.args.crypto.price > 0) =>
    /\ calc.result.momentum >= -100 * Scale
    /\ calc.result.momentum <= 100 * Scale
    /\ calc.result.volatility >= 0
    /\ calc.result.volatility <= 100 * Scale
    /\ calc.result.strength >= 0
    /\ calc.result.strength <= 100 * Scale

-----------------------------------------------------------------------------
(* Claims about targets, sentiment and the fetch order *)

(* C17: for a positive current price, whatever the rank, volatility,       *)
(* leverage and the support / resistance lists hold (levels on the wrong   *)
(* side of the price included), calculateTargets returns stopLoss <        *)
(* currentPrice < targetPrice for LONG and targetPrice < currentPrice <    *)
(* stopLoss for SHORT.                                                     *)
C17_TargetsStraddlePrice ==
  (calc.fn = "calculateTargets" /\ calc.args.crypto.price > 0) =>
    LET currentPrice == calc.args.crypto.price * Scale
    IN /\ calc.args.prediction = "LONG" =>
            /\ calc.result.stopLoss < currentPrice
            /\ currentPrice < calc.result.targetPrice
       /\ calc.args.prediction = "SHORT" =>
            /\ calc.result.targetPrice < currentPrice
            /\ currentPrice < calc.result.stopLoss

C17_Witness ==
  /\ calc.fn = "calculateTargets"
  /\ calc.args.prediction = "LONG"
  /\ calc.args.enhanced.present
  /\ Len(calc.args.enhanced.resistanceLevels) > 0
  /\ calc.args.enhanced.resistanceLevels[1].price < calc.args.crypto.price * Scale
  /\ Len(calc.args.enhanced.supportLevels) > 0
  /\ calc.args.enhanced.supportLevels[1].price > calc.args.crypto.price * Scale
  /\ calc.result.targetPrice > calc.args.crypto.price * Scale

TargetQualifies(level, direction) ==
  LET gain == IF direction = "LONG"
                THEN Distance(level.price, calc.args.crypto.price)
                ELSE -Distance(level.price, calc.args.crypto.price)
      targetPercent == TargetPercent(calc.args.crypto.rank,
                                     calc.args.indicators.volatility)
  IN gain > 10000 /\ gain * 10 < targetPercent * 15

StopQualifies(level, direction) ==
  LET distance == IF direction = "LONG"
                    THEN -Distance(level.price, calc.args.crypto.price)
                    ELSE Distance(level.price, calc.args.crypto.price)
      stopPercent == StopPercent(calc.args.crypto.rank, calc.args.leverage)
  IN distance > 5000 /\ distance < stopPercent * 2

PricesIn(levels) == {levels[i].price : i \in 1..Len(levels)}

(* C18: when some resistance level of a LONG call has a gain in the        *)
(* accepted range, the target is the nearest such level, also when the     *)
(* first level of the list does not qualify and a later one does; the      *)
(* same for the stop against the support levels, and mirrored for SHORT.   *)
C18_NearestQualifyingLevel ==
  (calc.fn = "calculateTargets" /\ calc.args.enhanced.present
     /\ calc.args.prediction \in {"LONG", "SHORT"}) =>
    LET long == calc.args.prediction = "LONG"
        res == calc.args.enhanced.resistanceLevels
        sup == calc.args.enhanced.supportLevels
        targetLevels == IF long THEN res ELSE sup
        stopLevels == IF long THEN sup ELSE res
        targets == {l \in PricesIn(targetLevels) :
                      TargetQualifies([price |-> l], calc.args.prediction)}
        stops == {l \in PricesIn(stopLevels) :
                    StopQualifies([price |-> l], calc.args.prediction)}
    IN /\ targets # {} =>
            calc.result.targetPrice = IF long THEN SetMin(targets) ELSE SetMax(targets)
       /\ stops # {} =>
            calc.result.stopLoss =
              IF long THEN (SetMax(stops) * 995) \div 1000
              ELSE (SetMin(stops) * 1005) \div 1000


(* C19: calculateSentiment returns NEUTRAL exactly when the direction is   *)
(* NEUTRAL; for LONG it returns EXTREME_BULLISH when the adjusted score is *)
(* above 60 and BULLISH otherwise, for SHORT EXTREME_BEARISH when the      *)
(* score is below -60 and BEARISH otherwise.                               *)
C19_SentimentFollowsDirection ==
  calc.fn = "calculateSentiment" =>
    LET score == SentimentScore(calc.args.indicators, calc.args.prediction,
                                calc.args.enhanced)
    IN /\ (calc.result = "NEUTRAL") <=> (calc.args.prediction = "NEUTRAL")
       /\ calc.args.prediction = "LONG" =>
            calc.result = IF score > 60 * Scale THEN "EXTREME_BULLISH" ELSE "BULLISH"
       /\ calc.args.prediction = "SHORT" =>
            calc.result = IF score < -60 * Scale THEN "EXTREME_BEARISH" ELSE "BEARISH"

C19_Witness ==
  /\ calc.fn = "calculateSentiment"
  /\ calc.args.prediction = "LONG"
  /\ SentimentScore(calc.args.indicators, "LONG", calc.args.enhanced) < 0
  /\ calc.result = "BULLISH"


ReachesFetch(crypto) == crypto.faulty \notin {"null", "before"}

(* the fetches of the first n entries of the batch, in input order *)
FetchesOf(n) ==
  LET reached == SelectSeq(SubSeq(cryptos, 1, n), ReachesFetch)
  IN [i \in 1..Len(reached) |-> <<reached[i].id, HistoryDays>>]

(* C20: within one call of generatePredictions at most one                 *)
(* fetchPriceHistory is outstanding; while the fetch of an entry is        *)
(* outstanding every earlier entry has been evaluated (resolved or         *)
(* caught), and the fetches issued so far are those of the entries begun   *)
(* so far, in input order.                                                 *)
C20_OneFetchAtATime ==
  pc # "idle" =>
    /\ outstanding \in {0, 1}
    /\ outstanding = 1 => (gp.state = "awaiting" /\ Len(evaluated) = cursor - 1)
    /\ fetchLog = FetchesOf(IF gp = NoPrediction THEN cursor - 1 ELSE cursor)

C20_Witness ==
  /\ pc = "running"
  /\ cursor = 2
  /\ outstanding = 1
  /\ evaluated = <<"rejected">>
  /\ Len(fetchLog) = 2

-----------------------------------------------------------------------------
(* Claims about termination, crossovers, patterns, levels and frames *)

NoNullEntry == \A i \in 1..Len(cryptos) : cryptos[i].faulty # "null"

C22_CrossoverRule ==
  (calc.fn = "calculateMACD" /\ Len(prices) >= MACDSlow) =>
    LET history == MACDHistory(PriceValues(prices))
        n == Len(history)
        latest == history[n]
        signal == calculateEMA(history, MACDSignal)
        r == calc.result
    IN /\ r.macd = latest
       /\ r.signal = signal
       /\ n = 1 =>
            /\ r.crossover = "none"
            /\ r.signal = r.macd
            /\ r.histogram = 0
            /\ r.trend = "neutral"
       /\ n >= 2 =>
            LET previous == history[n - 1]
                previousSignal == calculateEMA(SubSeq(history, 1, n - 1), MACDSignal)
                up == previous <= previousSignal /\ latest > signal
                down == previous >= previousSignal /\ latest < signal
            IN /\ (r.crossover = "bullish_crossover") <=> up
               /\ (r.crossover = "bearish_crossover") <=> down
               /\ (r.crossover = "none") <=> (~up /\ ~down)

C22_Witness ==
  /\ calc.fn = "calculateMACD"
  /\ Len(prices) > MACDSlow
  /\ calc.result.crossover = "bullish_crossover"
  /\ LET history == MACDHistory(PriceValues(prices))
     IN history[Len(history) - 1]
          = calculateEMA(SubSeq(history, 1, Len(history) - 1), MACDSignal)


(* the seven rules on the last four prices, in their order of priority *)
PatternOrder ==
  <<"doji", "engulfing_bullish", "engulfing_bearish", "morning_star",
    "evening_star", "three_white_soldiers", "three_black_crows">>

PatternHolds(name, ps) ==
  LET n == Len(ps)
      d1 == ps[n - 2] - ps[n - 3]
      d2 == ps[n - 1] - ps[n - 2]
      d3 == ps[n] - ps[n - 1]
  IN CASE name = "doji" -> Abs(d3) * 1000 < ps[n - 1]
       [] name = "engulfing_bullish" -> d2 < 0 /\ d3 > 0 /\ 2 * Abs(d3) > 3 * Abs(d2)
       [] name = "engulfing_bearish" -> d2 > 0 /\ d3 < 0 /\ 2 * Abs(d3) > 3 * Abs(d2)
       [] name = "morning_star" -> d1 < 0 /\ 2 * Abs(d2) < Abs(d1) /\ d3 > 0
       [] name = "evening_star" -> d1 > 0 /\ 2 * Abs(d2) < Abs(d1) /\ d3 < 0
       [] name = "three_white_soldiers" ->
            /\ d1 > 0 /\ d2 > 0 /\ d3 > 0
            /\ 100 * d1 > ps[n - 3] /\ 100 * d2 > ps[n - 2] /\ 100 * d3 > ps[n - 1]
       [] name = "three_black_crows" ->
            /\ d1 < 0 /\ d2 < 0 /\ d3 < 0
            /\ 100 * (-d1) > ps[n - 3] /\ 100 * (-d2) > ps[n - 2]
            /\ 100 * (-d3) > ps[n - 1]

(* C23: identifyCandlestickPattern returns the first rule of the order     *)
(* doji, bullish engulfing, bearish engulfing, morning star, evening star, *)
(* three white soldiers, three black crows that holds on the last four     *)
(* prices, and none when no rule holds.                                    *)
C23_FirstRuleWins ==
  (calc.fn = "identifyCandlestickPattern" /\ Len(prices) >= CandleMinLength) =>
    LET holding == {i \in 1..Len(PatternOrder) : PatternHolds(PatternOrder[i], prices)}
    IN calc.result.pattern
         = IF holding = {} THEN "none" ELSE PatternOrder[SetMin(holding)]

C23_Witness ==
  /\ calc.fn = "identifyCandlestickPattern"
  /\ Len(prices) >= CandleMinLength
  /\ calc.result.pattern = "doji"
  /\ PatternHolds("engulfing_bullish", prices)
  /\ PatternHolds("morning_star", prices)


(* The clustering as the text describes it: each level is the list of the  *)
(* extremum prices merged into it, its price is their mean; an extremum    *)
(* joins the first level within the threshold or starts a new one.         *)
MeanPrice(members) == Sum(members) \div Len(members)

JoinCluster(clusters, price, threshold) ==
  LET near == {j \in 1..Len(clusters) :
                 Abs(MeanPrice(clusters[j]) - price) * Scale < threshold * price}
  IN IF near = {} THEN Append(clusters, <<price>>)
     ELSE [clusters EXCEPT ![SetMin(near)] = Append(@, price)]

RECURSIVE Clusters(_, _, _, _, _)
Clusters(v, i, clusters, threshold, minima) ==
  IF i > Len(v) - 2 THEN clusters
  ELSE Clusters(v, i + 1,
                IF (IF minima THEN IsLocalMin(v, i) ELSE IsLocalMax(v, i))
                  THEN JoinCluster(clusters, v[i], threshold) ELSE clusters,
                threshold, minima)

Extrema(v, minima) ==
  {i \in 3..(Len(v) - 2) : IF minima THEN IsLocalMin(v, i) ELSE IsLocalMax(v, i)}

(* levels agree with clusters: one level per cluster, touches = number of  *)
(* merged prices, price = their mean up to the rounding of the fixed point *)
LevelsMatch(levels, clusters) ==
  /\ Len(levels) = Len(clusters)
  /\ \A j \in 1..Len(levels) :
       /\ levels[j].touches = Len(clusters[j])
       /\ Abs(levels[j].price - MeanPrice(clusters[j])) <= levels[j].touches

StrengthOf(touches) ==
  IF touches >= 3 THEN "strong" ELSE IF touches = 2 THEN "moderate" ELSE "weak"

(* C24: in detectSupportResistance every strict local extremum is counted  *)
(* exactly once, joining an existing level of its type within the          *)
(* threshold (touches + 1, price = mean of the merged prices) or creating  *)
(* a level with touches = 1; every returned level has touches >= 1 and     *)
(* the strength its touches give.                                          *)
C24_ExtremaCountedOnce ==
  (calc.fn = "detectSupportResistance" /\ Len(prices) >= SRMinLength) =>
    LET v == PriceValues(prices)
        supports == RawSupports(v, SRThreshold)
        resistances == RawResistances(v, SRThreshold)
        returned == calc.result.supports \o calc.result.resistances
    IN /\ LevelsMatch(supports, Clusters(v, 3, <<>>, SRThreshold, TRUE))
       /\ LevelsMatch(resistances, Clusters(v, 3, <<>>, SRThreshold, FALSE))
       /\ Sum([j \in 1..Len(supports) |-> supports[j].touches])
            = Cardinality(Extrema(v, TRUE))
       /\ Sum([j \in 1..Len(resistances) |-> resistances[j].touches])
            = Cardinality(Extrema(v, FALSE))
       /\ \A j \in 1..Len(returned) :
            /\ returned[j].touches >= 1
            /\ returned[j].strength = StrengthOf(returned[j].touches)
       /\ \A j \in 1..Len(calc.result.supports) :
            \E k \in 1..Len(supports) :
              /\ calc.result.supports[j].price = supports[k].price
              /\ calc.result.supports[j].touches = supports[k].touches
       /\ \A j \in 1..Len(calc.result.resistances) :
            \E k \in 1..Len(resistances) :
              /\ calc.result.resistances[j].price = resistances[k].price
              /\ calc.result.resistances[j].touches = resistances[k].touches

C24_Witness ==
  /\ calc.fn = "detectSupportResistance"
  /\ Len(prices) >= SRMinLength
  /\ \E j \in 1..Len(calc.result.supports) :
       /\ calc.result.supports[j].touches = 3
       /\ calc.result.supports[j].strength = "strong"
       /\ calc.result.supports[j].price % Scale # 0


Contradictory(rsi) ==
  \/ rsi.signal = "oversold" /\ rsi.trend = "bullish"
  \/ rsi.signal = "overbought" /\ rsi.trend = "bearish"

(* C26: calculateRSI never returns oversold together with a bullish trend  *)
(* nor overbought together with a bearish trend, so on the indicators       *)
(* generatePrediction computes from a fetched history the two +3 RSI rules *)
(* never fire and the RSI signal adds at most 2 to either score.           *)
C26_RSINeverContradictory ==
  /\ calc.fn = "calculateRSI" => ~Contradictory(calc.result)
  /\ (gp.state = "settled" /\ FetchAndEnhance(gp.outcome).enhanced.present) =>
       LET rsi == FetchAndEnhance(gp.outcome).enhanced.rsi
       IN /\ rsi = calculateRSI(gp.outcome.prices, RSIPeriod)
          /\ ~Contradictory(rsi)

C26_Witness ==
  /\ calc.fn = "calculateRSI"
  /\ Len(prices) > RSIPeriod
  /\ calc.result.signal = "oversold"
  /\ prices[Len(prices)] > prices[Len(prices) - 1]
  /\ calc.result.trend = "neutral"


(* C27: for the direction NEUTRAL calculateTargets returns targetPrice =   *)
(* currentPrice and stopLoss = 0.97 * currentPrice, with or without        *)
(* enhanced indicators and whatever the levels, rank, volatility and       *)
(* leverage are.                                                           *)
C27_NeutralTargets ==
  (calc.fn = "calculateTargets" /\ calc.args.prediction = "NEUTRAL") =>
    /\ calc.result.targetPrice = calc.args.crypto.price * Scale
    /\ 100 * calc.result.stopLoss = 97 * calc.args.crypto.price * Scale

C27_Witness ==
  /\ calc.fn = "calculateTargets"
  /\ calc.args.prediction = "NEUTRAL"
  /\ calc.args.enhanced.present
  /\ Len(calc.args.enhanced.resistanceLevels) > 0
  /\ calc.args.enhanced.resistanceLevels[1].price = 103 * Scale
  /\ calc.args.leverage = 5
  /\ calc.result.targetPrice = calc.args.crypto.price * Scale


ShortHistory(outcome) ==
  /\ outcome.kind = "history"
  /\ Len(outcome.prices) >= 1
  /\ Len(outcome.prices) <= 9

(* C28: when the provider answers with 1 to 9 samples, generatePrediction  *)
(* returns the same direction, sentiment, confidence, leverage, risk       *)
(* level, target, stop, timeframe and reasons as it does for the same      *)
(* snapshot without enhanced indicators: the default indicator values add  *)
(* nothing.                                                                *)
C28_ShortHistoryEqualsBasic ==
  (gp.state = "resolved" /\ ShortHistory(gp.outcome)) =>
    LET crypto == cryptos[cursor]
        basic == AssemblePrediction(crypto, calculateBasicIndicators(crypto), NullEnhanced)
    IN /\ FetchAndEnhance(gp.outcome).enhanced.present
       /\ gp.value.prediction = basic.prediction
       /\ gp.value.sentiment = basic.sentiment
       /\ gp.value.confidence = basic.confidence
       /\ gp.value.leverage = basic.leverage
       /\ gp.value.riskLevel = basic.riskLevel
       /\ gp.value.targetPrice = basic.targetPrice
       /\ gp.value.stopLoss = basic.stopLoss
       /\ gp.value.timeframe = basic.timeframe
       /\ gp.value.reasons = basic.reasons

C28_Witness ==
  /\ gp.state = "resolved"
  /\ gp.outcome.kind = "history"
  /\ Len(gp.outcome.prices) = 9
  /\ FetchAndEnhance(gp.outcome).enhanced.present
  /\ gp.value.prediction = "LONG"
  /\ Len(gp.value.reasons) > 0


(* the entries evaluated so far whose evaluation resolved, in input order *)
ResolvedEntries ==
  LET done == {i \in 1..Len(evaluated) : evaluated[i] = "resolved"}
  IN [j \in 1..Cardinality(done) |->
        CHOOSE i \in done : Cardinality({h \in done : h <= i}) = j]

(* C29: the list generatePredictions builds preserves input order: its     *)
(* j-th prediction belongs to the j-th entry that evaluated successfully,  *)
(* and it is never longer than the input.                                  *)
C29_OutputPreservesOrder ==
  pc # "idle" =>
    /\ Len(predictions) <= Len(cryptos)
    /\ Len(predictions) = Len(ResolvedEntries)
    /\ \A j \in 1..Len(predictions) :
         predictions[j].crypto = cryptos[ResolvedEntries[j]].id

C29_Witness ==
  /\ pc = "returned"
  /\ Len(predictions) = 2
  /\ predictions[1].crypto = "ethereum"
  /\ predictions[2].crypto = "bitcoin"
  /\ cryptos[1].id = "ethereum"


(* no level was used: the result is the one computed without levels *)
PercentageOnly ==
  calc.result = calculateTargets(calc.args.crypto, calc.args.prediction,
                                 calc.args.indicators, calc.args.leverage, NullEnhanced)

(* C30: when the targets are percentage-only, for every rank, every        *)
(* volatility >= 0 and every leverage 1..10 a LONG or SHORT call has a     *)
(* target farther from the current price than its stop.                    *)
C30_RewardExceedsRisk ==
  (/\ calc.fn = "calculateTargets"
   /\ calc.args.prediction \in {"LONG", "SHORT"}
   /\ calc.args.crypto.price > 0
   /\ calc.args.indicators.volatility >= 0
   /\ PercentageOnly) =>
    Abs(calc.result.targetPrice - calc.args.crypto.price * Scale)
      > Abs(calc.result.stopLoss - calc.args.crypto.price * Scale)

C30_Witness ==
  /\ calc.fn = "calculateTargets"
  /\ calc.args.prediction = "SHORT"
  /\ ~calc.args.enhanced.present
  /\ calc.args.crypto.rank = 10
  /\ calc.args.indicators.volatility = 0
  /\ calc.args.leverage = 2
  /\ calc.args.crypto.price = 1
  /\ calc.result.targetPrice < calc.result.stopLoss

====
